---- MODULE Spec2Model ----
(***************************************************************************)
(* Model of pymatgen.phasediagram.pdanalyzer.PDAnalyzer: the queries of    *)
(* the analyzer over a phase diagram (convex hull) that is built once and  *)
(* then only read.                                                         *)
(*                                                                         *)
(* Numbers.  The code computes in floating point; the model computes the   *)
(* same expressions exactly, over rationals <<n, d>> kept in lowest terms  *)
(* with d > 0.  The tolerance PDAnalyzer.numerical_tol (1e-8 in the code)  *)
(* is the rational 1/TolDen: every comparison against it is the code's     *)
(* comparison, at a scale where the numbers stay small enough to           *)
(* enumerate.                                                              *)
(***************************************************************************)
EXTENDS Integers, Sequences, FiniteSets, TLC

----------------------------------------------------------------------------
(* Bounds of the model *)

\* The tolerance is 1/TolDen.
TolDen == 4

\* Largest number of atoms in the formula of a hull entry.
MaxAtoms == 2

\* Largest number of entries handed to the hull builder for a system of one
\* or two elements.
MaxEntries == 3

\* Query compositions have QueryAtoms atoms in total.
QueryAtoms == 8

----------------------------------------------------------------------------
(* F of the value of v: v is evaluated once, however often F uses it *)

With(v, F(_)) == CHOOSE r \in {F(x) : x \in {v}} : TRUE

----------------------------------------------------------------------------
(* Exact rational arithmetic *)

Abs(n) == IF n < 0 THEN -n ELSE n

RECURSIVE GCD(_, _)
GCD(a, b) == IF b = 0 THEN a ELSE GCD(b, a % b)

\* The rational n/d (d # 0) in lowest terms with a positive denominator.
Rat(n, d) ==
    LET g == GCD(Abs(n), Abs(d))
        s == IF d < 0 THEN -1 ELSE 1
    IN  <<(s * n) \div g, (s * d) \div g>>

Zero == <<0, 1>>
One == <<1, 1>>

RAdd(p, q) == Rat(p[1] * q[2] + q[1] * p[2], p[2] * q[2])
RNeg(p) == <<-p[1], p[2]>>
RSub(p, q) == RAdd(p, RNeg(q))
RMul(p, q) == Rat(p[1] * q[1], p[2] * q[2])
RDiv(p, q) == Rat(p[1] * q[2], p[2] * q[1])
RAbs(p) == <<Abs(p[1]), p[2]>>
RLt(p, q) == p[1] * q[2] < q[1] * p[2]
RLe(p, q) == p[1] * q[2] <= q[1] * p[2]
RGt(p, q) == RLt(q, p)
RGe(p, q) == RLe(q, p)

\* sum(s) of a sequence of rationals
RECURSIVE RSum(_)
RSum(s) == IF s = <<>> THEN Zero ELSE RAdd(Head(s), RSum(Tail(s)))

----------------------------------------------------------------------------
(* Linear algebra (numpy): a matrix is a sequence of rows *)

\* The sequence s and the matrix m with every element evaluated
Vector(s) == s \o <<>>
Matrix(m) == [i \in 1..Len(m) |-> Vector(m[i])] \o <<>>

Transpose(m) ==
    IF m = <<>> THEN <<>>
    ELSE [j \in 1..Len(m[1]) |-> [i \in 1..Len(m) |-> m[i][j]]]

\* s without its k-th element
DropAt(s, k) == [i \in 1..(Len(s) - 1) |-> IF i < k THEN s[i] ELSE s[i + 1]]

\* m without row i and column j
Minor(m, i, j) == [r \in 1..(Len(m) - 1) |-> DropAt(DropAt(m, i)[r], j)]

\* p with the sign of the cofactor in row i and column j
Signed(i, j, p) == IF (i + j) % 2 = 0 THEN p ELSE RNeg(p)

\* The determinant, expanded along the first row
RECURSIVE Det(_)
Det(m) ==
    IF Len(m) = 0 THEN One
    ELSE IF Len(m) = 1 THEN m[1][1]
    ELSE IF Len(m) = 2
         THEN RSub(RMul(m[1][1], m[2][2]), RMul(m[1][2], m[2][1]))
    ELSE RSum([j \in 1..Len(m) |->
                 Signed(1, j, RMul(m[1][j], Det(Minor(m, 1, j))))])

\* np.linalg.inv raises LinAlgError on a singular matrix
IsSingular(m) == With(Matrix(m), LAMBDA a : Det(a) = Zero)

\* np.linalg.inv(m) for a non-singular square matrix: adjugate over determinant
Inv(m) ==
    With(Matrix(m), LAMBDA a : With(Det(a), LAMBDA d :
        [i \in 1..Len(a) |-> [j \in 1..Len(a) |->
            RDiv(Signed(i, j, Det(Minor(a, j, i))), d)]]))

\* np.dot(m, v) for a matrix m and a vector v
MatVec(m, v) ==
    With(<<Matrix(m), Vector(v)>>, LAMBDA a :
        [i \in 1..Len(a[1]) |-> RSum([j \in 1..Len(a[2]) |-> RMul(a[1][i][j], a[2][j])])])

\* np.dot(v, m) for a vector v and a matrix m
VecMat(v, m) ==
    With(<<Vector(v), Matrix(m)>>, LAMBDA a :
        IF a[2] = <<>> THEN <<>>
        ELSE [j \in 1..Len(a[2][1]) |->
                RSum([i \in 1..Len(a[1]) |-> RMul(a[1][i], a[2][i][j])])])

----------------------------------------------------------------------------
(* Data model: elements, compositions, entries *)

AllElements == {"A", "B", "C"}

\* PDAnalyzer.numerical_tol
numerical_tol == Rat(1, TolDen)

\* Composition.num_atoms
num_atoms(comp) == comp["A"] + comp["B"] + comp["C"]

\* Composition.get_atomic_fraction(el)
get_atomic_fraction(comp, el) == Rat(comp[el], num_atoms(comp))

\* Composition.is_element: exactly one element has a non-zero amount
is_element(comp) == Cardinality({el \in AllElements : comp[el] > 0}) = 1

\* A PDEntry: an identity, a composition and an energy per atom
PDEntry(id, comp, e) == [id |-> id, composition |-> comp, energy_per_atom |-> e]

\* Outcomes of a call: a returned value or a raised exception
Ok(v) == [kind |-> "ok", val |-> v]
Raise(exc) == [kind |-> exc, val |-> <<>>]

----------------------------------------------------------------------------
(* Simplex (pymatgen.comp_geometry.simplex): point-in-simplex test *)

\* Simplex.in_simplex solves for the barycentric coefficients of the point
\* relative to the first vertex; a singular basis makes the solve fail.
simplex_singular(coords) ==
    IsSingular([i \in 1..(Len(coords) - 1) |->
                  [k \in 1..Len(coords[1]) |-> RSub(coords[i + 1][k], coords[1][k])]])

simplex_coeffs(coords, point) ==
    LET origin == coords[1]
        bary_coords == [i \in 1..(Len(coords) - 1) |->
                          [k \in 1..Len(origin) |-> RSub(coords[i + 1][k], origin[k])]]
        shifted_point == [k \in 1..Len(origin) |-> RSub(point[k], origin[k])]
    IN  VecMat(shifted_point, Inv(bary_coords))

\* Inside when every coefficient is >= -tolerance and they sum to <= 1 + tolerance
in_simplex(coords, point, tolerance) ==
    With(simplex_coeffs(coords, point), LAMBDA coeffs :
        /\ \A i \in 1..Len(coeffs) : RGe(coeffs[i], RNeg(tolerance))
        /\ RLe(RSum(coeffs), RAdd(One, tolerance)))

----------------------------------------------------------------------------
(* PhaseDiagram (pymatgen.phasediagram.pdmaker): the hull builder.         *)
(* Its facets are those of the lower convex hull of the points             *)
(* (atomic fractions of elements[2..], energy per atom).                   *)

\* The coordinates of entry e: the fractions of all elements but the first,
\* then the energy per atom.
qhull_row(elements, e) ==
    [k \in 1..Len(elements) |->
        IF k < Len(elements)
        THEN get_atomic_fraction(e.composition, elements[k + 1])
        ELSE e.energy_per_atom]

\* The pure entries of element el, as indices into entries
pure_indices(entries, el) ==
    {i \in 1..Len(entries) :
        is_element(entries[i].composition) /\ entries[i].composition[el] > 0}

\* The reference of el: its pure entry of lowest energy, the first such one
el_ref_index(entries, el) ==
    CHOOSE i \in pure_indices(entries, el) :
        \A j \in pure_indices(entries, el) :
            \/ RLt(entries[i].energy_per_atom, entries[j].energy_per_atom)
            \/ entries[i].energy_per_atom = entries[j].energy_per_atom /\ i <= j

\* The atomic fractions of entry e over the elements of the system
frac_row(elements, e) ==
    [k \in 1..Len(elements) |-> get_atomic_fraction(e.composition, elements[k])]

\* A facet as the tuple of its vertex indices, in increasing order
facet_tuple(f) ==
    CHOOSE t \in [1..Cardinality(f) -> f] :
        \A a, b \in 1..Cardinality(f) : a < b => t[a] < t[b]

\* The compositions of the vertices of f, a row for each vertex
vertex_matrix(entries, elements, f) ==
    [v \in 1..Cardinality(f) |-> frac_row(elements, entries[facet_tuple(f)[v]])]

\* The simplices over the entries in S: as many entries as there are
\* elements, of affinely independent compositions
simplices(entries, elements, S) ==
    {f \in SUBSET S :
        /\ Cardinality(f) = Len(elements)
        /\ ~IsSingular(vertex_matrix(entries, elements, f))}

\* The plane through the vertices of the simplex f at the composition of
\* entry i: whether the simplex holds the composition, and the energy of the
\* plane there
plane_energy(entries, elements, f, i) ==
    With(MatVec(Inv(Transpose(vertex_matrix(entries, elements, f))),
                frac_row(elements, entries[i])), LAMBDA c :
        [inside |-> \A v \in 1..Len(c) : RGe(c[v], Zero),
         energy |-> RSum([v \in 1..Len(c) |->
                       RMul(c[v], entries[facet_tuple(f)[v]].energy_per_atom)])])

\* Vertices of the lower hull: entry i is the lowest entry at its composition
\* (the first one among equals) and lies strictly below every simplex of
\* entries of other compositions that holds its composition.
hull_vertices(entries, elements) ==
    LET X(i) == frac_row(elements, entries[i])
        E(i) == entries[i].energy_per_atom
        N == 1..Len(entries)
    IN  {i \in N :
           /\ \A j \in N \ {i} :
                X(j) = X(i) => \/ RLt(E(i), E(j))
                               \/ E(i) = E(j) /\ i < j
           /\ \A f \in simplices(entries, elements, {j \in N : X(j) # X(i)}) :
                With(plane_energy(entries, elements, f, i), LAMBDA p :
                    p.inside => RLt(E(i), p.energy))}

\* The facets of the lower hull as sets of vertex indices: the simplices of
\* vertices whose plane has every other vertex strictly above it.
hull_facets(entries, elements) ==
    With(hull_vertices(entries, elements), LAMBDA V :
        {f \in simplices(entries, elements, V) :
            \A q \in V \ f :
                RLt(plane_energy(entries, elements, f, q).energy,
                    entries[q].energy_per_atom)})

\* s comes before t in the lexicographic order
lex_less(s, t) ==
    \E k \in 1..Len(s) : s[k] < t[k] /\ \A j \in 1..(k - 1) : s[j] = t[j]

\* The orders in which the builder may list the facets of F: any facet may
\* come first and any two facets in either order (the rotations of the
\* sorted list of the facets and of its reverse).
facet_lists(F) ==
    LET n == Cardinality(F)
        sorted == CHOOSE fl \in [1..n -> {facet_tuple(f) : f \in F}] :
                      \A a, b \in 1..n : a < b => lex_less(fl[a], fl[b])
        rotated(fl, r) == [a \in 1..n |-> fl[((a - 1 + r) % n) + 1]]
        reversed == [a \in 1..n |-> sorted[n + 1 - a]]
    IN  {rotated(sorted, r) : r \in 0..(n - 1)}
            \cup {rotated(reversed, r) : r \in 0..(n - 1)}

\* Building fails when an element has no pure entry to serve as reference
build_fails(entries, elements) ==
    \E k \in 1..Len(elements) : pure_indices(entries, elements[k]) = {}

\* PhaseDiagram(entries, elements), its facets listed as facets
PhaseDiagram(entries, elements, facets) ==
    [elements |-> elements,
     dim |-> Len(elements),
     all_entries |-> entries,
     qhull_entries |-> entries,
     qhull_data |-> [i \in 1..Len(entries) |-> qhull_row(elements, entries[i])],
     facets |-> facets,
     stable_entries |-> {entries[facets[a][v]] :
                            a \in 1..Len(facets), v \in 1..Len(elements)},
     el_refs |-> [el \in {elements[k] : k \in 1..Len(elements)} |->
                     entries[el_ref_index(entries, el)]]]

\* Every hull the builder may return for the entries
PhaseDiagrams(entries, elements) ==
    {PhaseDiagram(entries, elements, fl) :
        fl \in facet_lists(hull_facets(entries, elements))}

----------------------------------------------------------------------------
(* PDAnalyzer: the queries, each over the hull pd of its analyzer *)

\* PDAnalyzer._make_comp_matrix
make_comp_matrix(pd, complist) ==
    [i \in 1..Len(complist) |->
        [j \in 1..Len(pd.elements) |-> get_atomic_fraction(complist[i], pd.elements[j])]]

\* The Simplex that _in_facet builds for a facet, and the point it tests
facet_coords(pd, facet) ==
    [i \in 1..Len(facet) |-> SubSeq(pd.qhull_data[facet[i]], 1, pd.dim - 1)]

comp_point(pd, comp) ==
    [i \in 1..(Len(pd.elements) - 1) |-> get_atomic_fraction(comp, pd.elements[i + 1])]

\* _in_facet raises when the solve inside Simplex.in_simplex fails
in_facet_raises(pd, facet) ==
    Len(pd.elements) > 1 /\ simplex_singular(facet_coords(pd, facet))

\* Mutation of in_facet: on a hull of one element no facet contains a
\* composition
in_facet_unary_false(pd, facet, comp) ==
    IF Len(pd.elements) > 1
    THEN in_simplex(facet_coords(pd, facet), comp_point(pd, comp), numerical_tol)
    ELSE FALSE

\* PDAnalyzer._in_facet
in_facet(pd, facet, comp) ==
    IF Len(pd.elements) > 1
    THEN in_simplex(facet_coords(pd, facet), comp_point(pd, comp), numerical_tol)
    ELSE TRUE

\* Mutation of scan_facets: the scan stops at the first facet that matches
RECURSIVE scan_facets_first(_, _, _, _)
scan_facets_first(pd, comp, k, memberfacets) ==
    IF k > Len(pd.facets) THEN Ok(memberfacets)
    ELSE IF in_facet_raises(pd, pd.facets[k]) THEN Raise("LinAlgError")
    ELSE IF in_facet(pd, pd.facets[k], comp)
         THEN Ok(Append(memberfacets, pd.facets[k]))
         ELSE scan_facets_first(pd, comp, k + 1, memberfacets)

\* PDAnalyzer._get_facets: the scan from facet k on, appended to memberfacets
RECURSIVE scan_facets(_, _, _, _)
scan_facets(pd, comp, k, memberfacets) ==
    IF k > Len(pd.facets) THEN Ok(memberfacets)
    ELSE IF in_facet_raises(pd, pd.facets[k]) THEN Raise("LinAlgError")
    ELSE IF in_facet(pd, pd.facets[k], comp)
         THEN scan_facets(pd, comp, k + 1, Append(memberfacets, pd.facets[k]))
         ELSE scan_facets(pd, comp, k + 1, memberfacets)

get_facets(pd, comp) == scan_facets(pd, comp, 1, <<>>)

\* Mutation of scan_facet: a later facet that matches replaces an earlier one
RECURSIVE scan_facet_last(_, _, _)
scan_facet_last(pd, comp, k) ==
    IF k > Len(pd.facets) THEN Raise("RuntimeError")
    ELSE IF in_facet_raises(pd, pd.facets[k]) THEN Raise("LinAlgError")
    ELSE With(scan_facet_last(pd, comp, k + 1), LAMBDA later :
             IF later.kind # "RuntimeError" THEN later
             ELSE IF in_facet(pd, pd.facets[k], comp) THEN Ok(pd.facets[k])
             ELSE later)

\* PDAnalyzer._get_facet: the scan from facet k on
RECURSIVE scan_facet(_, _, _)
scan_facet(pd, comp, k) ==
    IF k > Len(pd.facets) THEN Raise("RuntimeError")
    ELSE IF in_facet_raises(pd, pd.facets[k]) THEN Raise("LinAlgError")
    ELSE IF in_facet(pd, pd.facets[k], comp) THEN Ok(pd.facets[k])
    ELSE scan_facet(pd, comp, k + 1)

get_facet(pd, comp) == scan_facet(pd, comp, 1)

\* Mutation of decompamts: the matrix is inverted without being transposed
decompamts_untransposed(pd, facet, comp) ==
    LET complist == [i \in 1..Len(facet) |-> pd.qhull_entries[facet[i]].composition]
        m == make_comp_matrix(pd, complist)
        compm == make_comp_matrix(pd, <<comp>>)
    IN  MatVec(Inv(m), compm[1])

\* The amounts solved by get_decomposition for a located facet:
\* np.dot(np.linalg.inv(m.transpose()), compm.transpose())
decompamts(pd, facet, comp) ==
    LET complist == [i \in 1..Len(facet) |-> pd.qhull_entries[facet[i]].composition]
        m == make_comp_matrix(pd, complist)
        compm == make_comp_matrix(pd, <<comp>>)
    IN  MatVec(Inv(Transpose(m)), compm[1])

facet_matrix_singular(pd, facet) ==
    IsSingular(Transpose(make_comp_matrix(pd,
        [i \in 1..Len(facet) |-> pd.qhull_entries[facet[i]].composition])))

\* Mutation of scrub: every vertex of the facet is kept, whatever its amount
scrub_none(pd, facet, amts) ==
    LET kept == 1..Len(facet)
        last(e) == CHOOSE i \in kept :
                      /\ pd.qhull_entries[facet[i]] = e
                      /\ \A j \in kept : pd.qhull_entries[facet[j]] = e => j <= i
    IN  [e \in {pd.qhull_entries[facet[i]] : i \in kept} |-> amts[last(e)]]

\* Mutation of scrub: an amount equal to the tolerance in absolute value is
\* kept as well
scrub_ge(pd, facet, amts) ==
    LET kept == {i \in 1..Len(facet) : RGe(RAbs(amts[i]), numerical_tol)}
        last(e) == CHOOSE i \in kept :
                      /\ pd.qhull_entries[facet[i]] = e
                      /\ \A j \in kept : pd.qhull_entries[facet[j]] = e => j <= i
    IN  [e \in {pd.qhull_entries[facet[i]] : i \in kept} |-> amts[last(e)]]

\* The dict filled by the scrubbing loop: the entries of the facet whose
\* amount exceeds the tolerance in absolute value; a later vertex with the
\* same entry overwrites an earlier one.
scrub(pd, facet, amts) ==
    LET kept == {i \in 1..Len(facet) : RGt(RAbs(amts[i]), numerical_tol)}
        last(e) == CHOOSE i \in kept :
                      /\ pd.qhull_entries[facet[i]] = e
                      /\ \A j \in kept : pd.qhull_entries[facet[j]] = e => j <= i
    IN  [e \in {pd.qhull_entries[facet[i]] : i \in kept} |-> amts[last(e)]]

\* Mutation of get_decomposition: no facet found gives an empty decomposition
get_decomposition_swallow(pd, comp) ==
    With(get_facet(pd, comp), LAMBDA facet :
        IF facet.kind = "RuntimeError" THEN Ok([e \in {} |-> Zero])
        ELSE IF facet.kind # "ok" THEN facet
        ELSE IF facet_matrix_singular(pd, facet.val) THEN Raise("LinAlgError")
        ELSE With(decompamts(pd, facet.val, comp), LAMBDA amts :
                 Ok(scrub(pd, facet.val, amts))))

\* Mutation of get_decomposition: a singular matrix gives a decomposition
\* without entries
get_decomposition_singular(pd, comp) ==
    With(get_facet(pd, comp), LAMBDA facet :
        IF facet.kind # "ok" THEN facet
        ELSE IF facet_matrix_singular(pd, facet.val) THEN Ok([e \in {} |-> Zero])
        ELSE With(decompamts(pd, facet.val, comp), LAMBDA amts :
                 Ok(scrub(pd, facet.val, amts))))

\* PDAnalyzer.get_decomposition
get_decomposition(pd, comp) ==
    With(get_facet(pd, comp), LAMBDA facet :
        IF facet.kind # "ok" THEN facet
        ELSE IF facet_matrix_singular(pd, facet.val) THEN Raise("LinAlgError")
        ELSE With(decompamts(pd, facet.val, comp), LAMBDA amts :
                 Ok(scrub(pd, facet.val, amts))))

\* Mutation of hullenergy: the amounts are summed without the energies
hullenergy_unweighted(decomp) ==
    LET RECURSIVE total(_)
        total(S) == IF S = {} THEN Zero
                    ELSE LET e == CHOOSE e \in S : TRUE
                         IN  RAdd(decomp[e], total(S \ {e}))
    IN  total(DOMAIN decomp)

\* sum([entry.energy_per_atom * amt for entry, amt in decomp.items()])
hullenergy(decomp) ==
    LET RECURSIVE total(_)
        total(S) == IF S = {} THEN Zero
                    ELSE LET e == CHOOSE e \in S : TRUE
                         IN  RAdd(RMul(e.energy_per_atom, decomp[e]), total(S \ {e}))
    IN  total(DOMAIN decomp)

\* Mutation of get_decomp_and_e_above_hull: an energy equal to the tolerance
\* is forced to 0 as well
get_decomp_and_e_above_hull_le(pd, entry) ==
    LET comp == entry.composition
        eperatom == entry.energy_per_atom
    IN  With(get_decomposition(pd, comp), LAMBDA decomp :
        IF decomp.kind # "ok" THEN decomp
        ELSE IF RLe(RAbs(eperatom), numerical_tol) THEN Ok(<<decomp.val, Zero>>)
        ELSE Ok(<<decomp.val, RSub(eperatom, hullenergy(decomp.val))>>))

\* Mutation of get_decomp_and_e_above_hull: no energy is forced to 0
get_decomp_and_e_above_hull_noguard(pd, entry) ==
    LET comp == entry.composition
        eperatom == entry.energy_per_atom
    IN  With(get_decomposition(pd, comp), LAMBDA decomp :
        IF decomp.kind # "ok" THEN decomp
        ELSE Ok(<<decomp.val, RSub(eperatom, hullenergy(decomp.val))>>))

\* PDAnalyzer.get_decomp_and_e_above_hull
get_decomp_and_e_above_hull(pd, entry) ==
    LET comp == entry.composition
        eperatom == entry.energy_per_atom
    IN  With(get_decomposition(pd, comp), LAMBDA decomp :
        IF decomp.kind # "ok" THEN decomp
        ELSE IF RLt(RAbs(eperatom), numerical_tol) THEN Ok(<<decomp.val, Zero>>)
        ELSE Ok(<<decomp.val, RSub(eperatom, hullenergy(decomp.val))>>))

\* PDAnalyzer.get_e_above_hull
get_e_above_hull(pd, entry) ==
    With(get_decomp_and_e_above_hull(pd, entry), LAMBDA r :
        IF r.kind # "ok" THEN r ELSE Ok(r.val[2]))

\* [e for e in self._pd.all_entries if e != entry]
RECURSIVE entries_without(_, _)
entries_without(entries, entry) ==
    IF entries = <<>> THEN <<>>
    ELSE IF Head(entries) # entry
         THEN <<Head(entries)>> \o entries_without(Tail(entries), entry)
         ELSE entries_without(Tail(entries), entry)

\* Mutation of get_facet_chempots: the transposed matrix is inverted
get_facet_chempots_transposed(pd, facet) ==
    LET complist == [i \in 1..Len(facet) |-> pd.qhull_entries[facet[i]].composition]
        energylist == [i \in 1..Len(facet) |-> pd.qhull_entries[facet[i]].energy_per_atom]
        m == make_comp_matrix(pd, complist)
    IN  IF IsSingular(m) THEN Raise("LinAlgError")
        ELSE With(MatVec(Inv(Transpose(m)), energylist), LAMBDA chempots :
                 Ok([el \in {pd.elements[k] : k \in 1..Len(pd.elements)} |->
                       chempots[CHOOSE k \in 1..Len(pd.elements) : pd.elements[k] = el]]))

\* PDAnalyzer.get_facet_chempots: np.dot(np.linalg.inv(m), energylist)
get_facet_chempots(pd, facet) ==
    LET complist == [i \in 1..Len(facet) |-> pd.qhull_entries[facet[i]].composition]
        energylist == [i \in 1..Len(facet) |-> pd.qhull_entries[facet[i]].energy_per_atom]
        m == make_comp_matrix(pd, complist)
    IN  IF IsSingular(m) THEN Raise("LinAlgError")
        ELSE With(MatVec(Inv(m), energylist), LAMBDA chempots :
                 Ok([el \in {pd.elements[k] : k \in 1..Len(pd.elements)} |->
                       chempots[CHOOSE k \in 1..Len(pd.elements) : pd.elements[k] = el]]))

\* element in self._pd.elements
has_element(pd, element) ==
    \E k \in 1..Len(pd.elements) : pd.elements[k] = element

\* Mutation of critical_chempots: the last facet is left out
RECURSIVE critical_chempots_short(_, _, _)
critical_chempots_short(pd, element, k) ==
    IF k >= Len(pd.facets) THEN Ok(<<>>)
    ELSE With(get_facet_chempots(pd, pd.facets[k]), LAMBDA chempots :
            IF chempots.kind # "ok" THEN chempots
            ELSE With(critical_chempots_short(pd, element, k + 1), LAMBDA rest :
                    IF rest.kind # "ok" THEN rest
                    ELSE Ok(<<chempots.val[element]>> \o rest.val)))

\* The loop of get_transition_chempots over the facets, from facet k on: the
\* potential of element on each facet, in the order of the facets
RECURSIVE critical_chempots(_, _, _)
critical_chempots(pd, element, k) ==
    IF k > Len(pd.facets) THEN Ok(<<>>)
    ELSE With(get_facet_chempots(pd, pd.facets[k]), LAMBDA chempots :
            IF chempots.kind # "ok" THEN chempots
            ELSE With(critical_chempots(pd, element, k + 1), LAMBDA rest :
                    IF rest.kind # "ok" THEN rest
                    ELSE Ok(<<chempots.val[element]>> \o rest.val)))

\* sorted(critical_chempots): ascending
RECURSIVE sorted(_)
sorted(cs) ==
    IF cs = <<>> THEN <<>>
    ELSE LET c == cs[Len(cs)]
             front == sorted(SubSeq(cs, 1, Len(cs) - 1))
             below == Cardinality({i \in 1..Len(front) : RLe(front[i], c)})
         IN  SubSeq(front, 1, below) \o <<c>> \o SubSeq(front, below + 1, Len(front))

\* Mutation of clean_pots: every potential is kept
RECURSIVE clean_pots_all(_, _)
clean_pots_all(cs, clean) ==
    IF cs = <<>> THEN clean
    ELSE clean_pots_all(Tail(cs), Append(clean, Head(cs)))

\* The first value of each maximal run of an ascending list in which
\* neighbouring values differ by no more than the tolerance
RECURSIVE run_heads(_)
run_heads(s) ==
    IF Len(s) <= 1 THEN s
    ELSE LET front == run_heads(SubSeq(s, 1, Len(s) - 1))
         IN  IF RGt(RSub(s[Len(s)], s[Len(s) - 1]), numerical_tol)
             THEN Append(front, s[Len(s)])
             ELSE front

\* Mutation of clean_pots: a potential is kept when it is the first or
\* differs from the potential before it by more than the tolerance
clean_pots_runs(cs, clean) == clean \o run_heads(cs)

\* The loop that fills clean_pots: a potential is kept when it is the first
\* or differs from the last one kept by more than the tolerance
RECURSIVE clean_pots(_, _)
clean_pots(cs, clean) ==
    IF cs = <<>> THEN clean
    ELSE IF Len(clean) = 0 THEN clean_pots(Tail(cs), Append(clean, Head(cs)))
    ELSE IF RGt(RAbs(RSub(Head(cs), clean[Len(clean)])), numerical_tol)
         THEN clean_pots(Tail(cs), Append(clean, Head(cs)))
         ELSE clean_pots(Tail(cs), clean)

\* Mutation of reverse: the list is left as it is
reverse_not(s) == s

\* list.reverse()
reverse(s) == [i \in 1..Len(s) |-> s[Len(s) + 1 - i]]

\* PDAnalyzer.get_transition_chempots
get_transition_chempots(pd, element) ==
    IF ~has_element(pd, element) THEN Raise("ValueError")
    ELSE With(critical_chempots(pd, element, 1), LAMBDA critical :
            IF critical.kind # "ok" THEN critical
            ELSE Ok(reverse(clean_pots(sorted(critical.val), <<>>))))

----------------------------------------------------------------------------
(* PDAnalyzer.get_chempot_range_map *)

\* The stable entries of the hull in the order of its entries
stable_list(pd) ==
    SelectSeq(pd.all_entries, LAMBDA e : e \in pd.stable_entries)

\* itertools.combinations(all_facets, 2): the pairs of positions, in order
combinations(n) ==
    LET pairs == {<<i, j>> : i \in 1..n, j \in 1..n}
        proper == {q \in pairs : q[1] < q[2]}
        before(q, r) == q[1] < r[1] \/ (q[1] = r[1] /\ q[2] < r[2])
    IN  CHOOSE s \in [1..Cardinality(proper) -> proper] :
            \A a, b \in 1..Cardinality(proper) : a < b => before(s[a], s[b])

\* set(facets[0]).intersection(set(facets[1]))
inter(facet1, facet2) ==
    {facet1[v] : v \in 1..Len(facet1)} \cap {facet2[v] : v \in 1..Len(facet2)}

\* Mutation of adjacent: a single shared vertex is enough
adjacent_loose(pd, facet1, facet2) ==
    Cardinality(inter(facet1, facet2)) >= 1

\* len(inter) == self._pd.dim - 1
adjacent(pd, facet1, facet2) ==
    Cardinality(inter(facet1, facet2)) = pd.dim - 1

\* [chempots[el] - elrefs[el].energy_per_atom for el in elements]
range_coords(pd, facet, elements) ==
    With(get_facet_chempots(pd, facet).val, LAMBDA chempots :
        [k \in 1..Len(elements) |->
            RSub(chempots[elements[k]], pd.el_refs[elements[k]].energy_per_atom)])

\* The list simplices of an entry whose composition is in all_facets: the
\* Simplex of each pair of facets that share dim - 1 vertices, as its two
\* points
range_simplices(pd, all_facets, elements) ==
    LET pairs == combinations(Len(all_facets))
        sim(q) == <<range_coords(pd, all_facets[q[1]], elements),
                    range_coords(pd, all_facets[q[2]], elements)>>
        kept == SelectSeq(pairs, LAMBDA q :
                    adjacent(pd, all_facets[q[1]], all_facets[q[2]]))
    IN  [a \in 1..Len(kept) |-> sim(kept[a])]

\* The exception that ends the loop body for an entry, "ok" when none does:
\* _get_facets fails, or a pair of facets qualifies, and a facet's potentials
\* cannot be solved or a requested element is not in them
range_raises(pd, entry, elements) ==
    With(get_facets(pd, entry.composition), LAMBDA all_facets :
        IF all_facets.kind # "ok" THEN all_facets.kind
        ELSE LET pairs == combinations(Len(all_facets.val))
                 kept == SelectSeq(pairs, LAMBDA q :
                     adjacent(pd, all_facets.val[q[1]], all_facets.val[q[2]]))
             IN  IF kept = <<>> THEN "ok"
                 ELSE IF get_facet_chempots(pd, all_facets.val[kept[1][1]]).kind # "ok"
                 THEN "LinAlgError"
                 ELSE IF \E k \in 1..Len(elements) : ~has_element(pd, elements[k])
                 THEN "KeyError"
                 ELSE IF \E a \in 1..Len(kept) : \E b \in 1..2 :
                            get_facet_chempots(pd, all_facets.val[kept[a][b]]).kind # "ok"
                 THEN "LinAlgError"
                 ELSE "ok")

\* PDAnalyzer.get_chempot_range_map: the entries are visited in the order of
\* the hull's entries
get_chempot_range_map(pd, elements) ==
    LET stable == stable_list(pd)
        failing == {i \in 1..Len(stable) : range_raises(pd, stable[i], elements) # "ok"}
    IN  IF failing # {}
        THEN Raise(range_raises(pd, stable[CHOOSE i \in failing :
                                               \A j \in failing : i <= j], elements))
        ELSE LET simplices_of(e) ==
                    range_simplices(pd, get_facets(pd, e.composition).val, elements)
             IN  Ok([e \in {e \in pd.stable_entries : Len(simplices_of(e)) > 0} |->
                        simplices_of(e)])

----------------------------------------------------------------------------
(* Collaborators of get_element_profile: the composition without an        *)
(* element, the grand-potential hull and the reaction balancer.            *)

\* 0.01 in GrandPotentialPhaseDiagram(stable_entries, {element: c - 0.01}, ...):
\* the step below a transition potential, larger than the tolerance
delta == Rat(1, 2)

\* 1e-5 in "if amt > 1e-5": the least amount of a phase that counts, between
\* the tolerance and delta
min_amount == Rat(1, 3)

\* Composition({el: amt for el, amt in comp.items() if el != element})
without_element(comp, element) ==
    [el \in AllElements |-> IF el = element THEN 0 ELSE comp[el]]

\* Composition.from_formula(element.symbol)
elcomp(element) == [el \in AllElements |-> IF el = element THEN 1 ELSE 0]

\* GrandPotPDEntry(entry, {element: mu}): the composition without the element,
\* the energy less mu for each atom of the element, and the entry it wraps
GrandPotPDEntry(entry, element, mu) ==
    LET gccomp == without_element(entry.composition, element)
        energy == RSub(RMul(entry.energy_per_atom, Rat(num_atoms(entry.composition), 1)),
                       RMul(mu, Rat(entry.composition[element], 1)))
    IN  [id |-> entry.id,
         composition |-> gccomp,
         energy_per_atom |-> RDiv(energy, Rat(num_atoms(gccomp), 1)),
         original_entry |-> entry]

\* The entries of the grand-potential hull: the entries given but the pure
\* entries of the open element
gc_entries(entries, element, mu) ==
    LET kept == SelectSeq(entries, LAMBDA e : num_atoms(without_element(e.composition, element)) > 0)
    IN  [i \in 1..Len(kept) |-> GrandPotPDEntry(kept[i], element, mu)]

\* The elements of the grand-potential hull: the elements but the open one
gc_elements(elements, element) == SelectSeq(elements, LAMBDA el : el # element)

\* What stands for the hull when the builder failed
NoHull ==
    [elements |-> <<>>, dim |-> 0, all_entries |-> <<>>, qhull_entries |-> <<>>,
     qhull_data |-> <<>>, facets |-> <<>>, stable_entries |-> {}, el_refs |-> <<>>]

\* GrandPotentialPhaseDiagram(entries, {element: mu}, elements): every hull
\* the builder may return; none when no element or no entry is left
GrandPotentialPhaseDiagrams(entries, element, mu, elements) ==
    With(<<gc_entries(entries, element, mu), gc_elements(elements, element)>>, LAMBDA gc :
        IF gc[2] = <<>> \/ gc[1] = <<>> \/ build_fails(gc[1], gc[2])
        THEN {}
        ELSE PhaseDiagrams(gc[1], gc[2]))

ElementOrder == <<"A", "B", "C">>

\* Reaction([comp], products) normalized to comp: the amount of each product
\* made from one comp, or failure when the products cannot make up comp
Reaction(comp, products) ==
    LET n == Cardinality(products)
        ps == CHOOSE f \in [1..n -> products] : \A a, b \in 1..n : a # b => f[a] # f[b]
        rows(R) == SelectSeq(ElementOrder, LAMBDA el : el \in R)
        m(R) == [i \in 1..n |-> [j \in 1..n |-> Rat(ps[j][rows(R)[i]], 1)]]
        good == {R \in SUBSET AllElements : Cardinality(R) = n /\ ~IsSingular(m(R))}
    IN  IF good = {} THEN Raise("ReactionError")
        ELSE With(CHOOSE R \in good : TRUE, LAMBDA R :
             With(MatVec(Inv(m(R)), [i \in 1..n |-> Rat(comp[rows(R)[i]], 1)]), LAMBDA x :
                IF \A el \in AllElements :
                      RSum([j \in 1..n |-> RMul(x[j], Rat(ps[j][el], 1))]) = Rat(comp[el], 1)
                THEN Ok([p \in products |-> x[CHOOSE j \in 1..n : ps[j] = p]])
                ELSE Raise("ReactionError")))

----------------------------------------------------------------------------
(* PDAnalyzer.get_element_profile *)

\* are_same_decomp(decomp1, decomp2): every composition of decomp2 is in decomp1
are_same_decomp(decomp1, decomp2) == \A comp \in decomp2 : comp \in decomp1

\* A step of the loop that ended with the exception exc
failed_step(c, gcpd, exc) ==
    [kind |-> exc, chempot |-> c, gcpd |-> gcpd, decomp |-> {}, entries |-> {},
     event |-> FALSE, products |-> {}, reaction |-> <<>>]

\* The body of the loop for the transition potential c, the grand-potential
\* hull built for it and the decomposition recorded last
profile_step(pd, element, comp, c, gcpd, prev_decomp) ==
    LET gccomp == without_element(comp, element)
    IN  IF num_atoms(gccomp) = 0 THEN failed_step(c, gcpd, "ZeroDivisionError")
        ELSE With(get_decomposition(gcpd, gccomp), LAMBDA d :
            IF d.kind # "ok" THEN failed_step(c, gcpd, d.kind)
            ELSE LET counted == {gcentry \in DOMAIN d.val : RGt(d.val[gcentry], min_amount)}
                     decomp == {gcentry.original_entry.composition : gcentry \in counted}
                     decomp_entries == {gcentry.original_entry : gcentry \in counted}
                     products == decomp \cup {elcomp(element)}
                 IN  IF are_same_decomp(prev_decomp, decomp)
                     THEN [kind |-> "ok", chempot |-> c, gcpd |-> gcpd, decomp |-> decomp,
                           entries |-> decomp_entries, event |-> FALSE,
                           products |-> prev_decomp, reaction |-> <<>>]
                     ELSE With(Reaction(comp, products), LAMBDA rxn :
                            IF rxn.kind # "ok"
                            THEN [failed_step(c, gcpd, rxn.kind) EXCEPT
                                     !.decomp = decomp, !.entries = decomp_entries]
                            ELSE [kind |-> "ok", chempot |-> c, gcpd |-> gcpd,
                                  decomp |-> decomp, entries |-> decomp_entries,
                                  event |-> TRUE, products |-> products,
                                  reaction |-> rxn.val]))

\* Mutation of sweep_hulls: the hull of a step is built at the transition
\* potential itself
sweep_hulls_unshifted(pd, element, chempots) ==
    Vector([k \in 1..Len(chempots) |->
               GrandPotentialPhaseDiagrams(stable_list(pd), element,
                                           chempots[k], pd.elements)])

\* The hulls the builder may return in each step of the loop, for the
\* transition potentials chempots
sweep_hulls(pd, element, chempots) ==
    Vector([k \in 1..Len(chempots) |->
               GrandPotentialPhaseDiagrams(stable_list(pd), element,
                                           RSub(chempots[k], delta), pd.elements)])

\* Every way the loop may run over chempots from position k on, as the
\* sequence of its steps: a step for each potential, up to the first that
\* fails; hulls[k] are the hulls the builder may return in step k
RECURSIVE profile_runs(_, _, _, _, _, _, _)
profile_runs(pd, element, comp, chempots, hulls, k, prev_decomp) ==
    IF k > Len(chempots) THEN {<<>>}
    ELSE IF hulls[k] = {}
    THEN {<<failed_step(chempots[k], NoHull, "PhaseDiagramError")>>}
    ELSE UNION {With(profile_step(pd, element, comp, chempots[k], gcpd, prev_decomp),
                  LAMBDA step :
                    IF step.kind # "ok" THEN {<<step>>}
                    ELSE {<<step>> \o rest :
                            rest \in profile_runs(pd, element, comp, chempots, hulls,
                                                  k + 1, step.products)}) :
                gcpd \in hulls[k]}

\* The dictionary appended to evolution in a step that records an event
evolution_event(pd, element, step) ==
    [chempot |-> step.chempot,
     evolution |-> RNeg(step.reaction[elcomp(element)]),
     element_reference |-> pd.el_refs[element],
     reaction |-> step.reaction,
     entries |-> step.entries]

\* Mutation of evolution: an event is put before the events recorded so far
RECURSIVE evolution_backwards(_, _, _)
evolution_backwards(pd, element, steps) ==
    IF steps = <<>> THEN <<>>
    ELSE IF Head(steps).event
         THEN evolution_backwards(pd, element, Tail(steps))
                  \o <<evolution_event(pd, element, Head(steps))>>
         ELSE evolution_backwards(pd, element, Tail(steps))

\* The list evolution after the steps of a run
RECURSIVE evolution(_, _, _)
evolution(pd, element, steps) ==
    IF steps = <<>> THEN <<>>
    ELSE IF Head(steps).event
         THEN <<evolution_event(pd, element, Head(steps))>>
                  \o evolution(pd, element, Tail(steps))
         ELSE evolution(pd, element, Tail(steps))

\* Mutation of profile_outcome: a step that fails ends the loop and the
\* events recorded before it are returned
profile_outcome_partial(pd, element, steps) ==
    IF steps # <<>> /\ steps[Len(steps)].kind # "ok"
    THEN Ok(evolution(pd, element, SubSeq(steps, 1, Len(steps) - 1)))
    ELSE Ok(evolution(pd, element, steps))

\* What get_element_profile returns or raises after the steps of a run
profile_outcome(pd, element, steps) ==
    IF steps # <<>> /\ steps[Len(steps)].kind # "ok"
    THEN Raise(steps[Len(steps)].kind)
    ELSE Ok(evolution(pd, element, steps))

\* The calls made in the steps of a run, in order
RECURSIVE profile_calls(_)
profile_calls(steps) ==
    IF steps = <<>> THEN <<>>
    ELSE LET step == Head(steps)
         IN  (IF step.gcpd = NoHull THEN <<"GrandPotentialPhaseDiagram">>
              ELSE IF step.kind = "ZeroDivisionError" \/ step.kind = "RuntimeError"
                      \/ step.kind = "LinAlgError"
              THEN <<"GrandPotentialPhaseDiagram", "get_decomposition">>
              ELSE IF step.event \/ step.kind = "ReactionError"
              THEN <<"GrandPotentialPhaseDiagram", "get_decomposition",
                     "get_decomposition", "Reaction">>
              ELSE <<"GrandPotentialPhaseDiagram", "get_decomposition",
                     "get_decomposition">>)
             \o profile_calls(Tail(steps))

----------------------------------------------------------------------------
(* Inputs *)

\* Energies per atom of the entries a hull is built from
HullEnergies == {Rat(-1, 1), Zero}

\* Energies per atom of the entries a query is asked about: at, below and
\* above the tolerance in magnitude
QueryEnergies == {Rat(-1, 2), Rat(-1, TolDen), Rat(-1, 2 * TolDen), Zero, Rat(1, TolDen)}

\* The reduced formulas of up to MaxAtoms atoms
Formulas ==
    {c \in [AllElements -> 0..MaxAtoms] :
        /\ num_atoms(c) \in 1..MaxAtoms
        /\ GCD(GCD(c["A"], c["B"]), c["C"]) = 1}

\* Compositions of the entries of a system: the formulas over its elements
EntryComps(elements) ==
    {c \in Formulas :
        \A el \in AllElements :
            c[el] > 0 => \E k \in 1..Len(elements) : elements[k] = el}

\* The compositions of QueryAtoms atoms, and those of A and B alone
Mixtures ==
    {c \in [AllElements -> 0..QueryAtoms] : num_atoms(c) = QueryAtoms}

MixturesAB == {c \in Mixtures : c["C"] = 0}

\* Compositions asked about: the mixtures of A, B and the elements of the
\* system
QueryComps(elements) ==
    IF \E k \in 1..Len(elements) : elements[k] = "C" THEN Mixtures ELSE MixturesAB

\* The entries of a system of two elements whose two facets have potentials
\* that differ by half the tolerance: the pure entries, the second one half
\* the tolerance above -2, and the compound of one atom of each at -1.
TiltedLists(elements) ==
    IF Len(elements) # 2 THEN {}
    ELSE LET pure(k) == [el \in AllElements |-> IF el = elements[k] THEN 1 ELSE 0]
             both == [el \in AllElements |-> pure(1)[el] + pure(2)[el]]
         IN  {<<PDEntry(1, pure(1), Zero),
                PDEntry(2, pure(2), RAdd(Rat(-2, 1), RDiv(numerical_tol, Rat(2, 1)))),
                PDEntry(3, both, Rat(-1, 1))>>}

\* The entries of a system of two elements whose three facets have
\* potentials of the first element in a chain: 0, 3/4 of the tolerance below
\* it and 3/2 of the tolerance below it.  Each is within the tolerance of
\* its neighbour, the ends are not within the tolerance of each other.
ChainLists(elements) ==
    IF Len(elements) # 2 THEN {}
    ELSE LET pure(k) == [el \in AllElements |-> IF el = elements[k] THEN 1 ELSE 0]
             both == [el \in AllElements |-> pure(1)[el] + pure(2)[el]]
             rich == [el \in AllElements |-> pure(1)[el] + 3 * pure(2)[el]]
         IN  {<<PDEntry(1, pure(1), Zero),
                PDEntry(2, pure(2), RAdd(Rat(-2, 1), numerical_tol)),
                PDEntry(3, both, Rat(-1, 1)),
                PDEntry(4, rich, RAdd(Rat(-3, 2), RMul(Rat(3, 8), numerical_tol)))>>}

\* The entries of a system of three elements with a compound inside the
\* triangle: the pure entries at 0 and the compound of one atom of each at
\* -1, alone (three facets around it) and with the compound of the first two
\* elements at -1 (four facets around it).
InteriorLists(elements) ==
    IF Len(elements) # 3 THEN {}
    ELSE LET pure(k) == [el \in AllElements |-> IF el = elements[k] THEN 1 ELSE 0]
             all == [el \in AllElements |-> pure(1)[el] + pure(2)[el] + pure(3)[el]]
             two == [el \in AllElements |-> pure(1)[el] + pure(2)[el]]
             inside == <<PDEntry(1, pure(1), Zero), PDEntry(2, pure(2), Zero),
                         PDEntry(3, pure(3), Zero), PDEntry(4, all, Rat(-1, 1))>>
         IN  {inside, Append(inside, PDEntry(5, two, Rat(-1, 1)))}

\* The entry lists a hull is built from; the entry at position i has id i.
\* A list starts with a pure entry of each element, in the order of the
\* elements.  A system of three elements has these three at energy 0 and at
\* most one further entry.
EntryLists(elements) ==
    LET dim == Len(elements)
        most == IF dim < 3 THEN MaxEntries ELSE dim + 1
        first == IF dim < 3 THEN HullEnergies ELSE {Zero}
        D(n) == {l \in [1..n -> EntryComps(elements) \X HullEnergies] :
                    \A k \in 1..dim :
                        /\ is_element(l[k][1]) /\ l[k][1][elements[k]] > 0
                        /\ l[k][2] \in first}
    IN  TiltedLists(elements) \cup ChainLists(elements) \cup InteriorLists(elements) \cup
        UNION {{[i \in 1..n |-> PDEntry(i, l[i][1], l[i][2])] : l \in D(n)} :
                  n \in dim..most}

ElementLists == {<<"A">>, <<"A", "B">>, <<"A", "B", "C">>}

\* Entries that are not in any hull
Foreign == {PDEntry(0, c, e) : c \in Mixtures, e \in QueryEnergies}

ForeignAB == {e \in Foreign : e.composition["C"] = 0}

ForeignEntries(elements) ==
    IF \E k \in 1..Len(elements) : elements[k] = "C" THEN Foreign ELSE ForeignAB

\* Entries that are not in the hull but have the composition and the energy
\* of one of its entries
Twins(hull) ==
    {PDEntry(0, hull.all_entries[i].composition, hull.all_entries[i].energy_per_atom) :
        i \in 1..Len(hull.all_entries)}

\* The compositions a profile is asked for: the mixtures without A and
\* those with half of their atoms A
ProfileMixtures == {c \in Mixtures : c["A"] \in {0, QueryAtoms \div 2}}

ProfileMixturesAB == {c \in ProfileMixtures : c["C"] = 0}

ProfileComps(elements) ==
    IF \E k \in 1..Len(elements) : elements[k] = "C"
    THEN ProfileMixtures ELSE ProfileMixturesAB

\* The sequences of elements a range map is asked for: one element or two
RangeElements ==
    {<<a>> : a \in AllElements}
        \cup {q \in AllElements \X AllElements : q[1] # q[2]}

----------------------------------------------------------------------------
(* DictVaspInputSet (pymatgen.io.vaspio_set): the INCAR an input set       *)
(* writes for a structure.  A dict is a function on its keys.              *)

\* Largest number of sites of a structure
MaxSites == 2

\* d.get(key, default)
dict_get(d, key, default) == IF key \in DOMAIN d THEN d[key] ELSE default

\* The dict d after d.update(other)
dict_update(d, other) ==
    [key \in DOMAIN d \cup DOMAIN other |->
        IF key \in DOMAIN other THEN other[key] ELSE d[key]]

\* The dict d without the keys in gone
dict_without(d, gone) == [key \in DOMAIN d \ gone |-> d[key]]

EmptyDict == [key \in {} |-> Zero]

\* The keys of an INCAR that the settings here may hold
IncarKeys == {"EDIFF", "MAGMOM", "LDAU", "LDAUU", "LDAUJ", "LDAUL", "LMAXMIX", "NUPDOWN"}

\* key.startswith("LDAU")
startswith_LDAU(key) == key \in {"LDAU", "LDAUU", "LDAUJ", "LDAUL"}

\* Element.X (times 100) and Element.Z of the elements of the structures
Symbols == {"Ce", "Mn", "O"}

el_X(symbol) == CASE symbol = "Ce" -> 112 [] symbol = "Mn" -> 155 [] symbol = "O" -> 344

el_Z(symbol) == CASE symbol = "Ce" -> 58 [] symbol = "Mn" -> 25 [] symbol = "O" -> 8

\* A species: an element (oxi_state 0) or an element with an oxidation
\* state, which may carry a spin
Specie(symbol, oxi_state, has_spin, spin) ==
    [symbol |-> symbol, oxi_state |-> oxi_state, has_spin |-> has_spin, spin |-> spin]

\* str(site.specie): the symbol, then the oxidation state and its sign
specie_str(specie) ==
    IF specie.oxi_state = 0 THEN specie.symbol
    ELSE specie.symbol \o (CASE specie.oxi_state = 3 -> "3+" [] specie.oxi_state = 4 -> "4+")

\* A site of a structure, with or without a magmom of its own
Site(specie, has_magmom, magmom) ==
    [specie |-> specie, has_magmom |-> has_magmom, magmom |-> magmom]

\* structure.get_sorted_structure(): the sites in the order of the
\* electronegativity of their elements, sites of one element in their order
sorted_structure(structure) ==
    LET of(symbol) == SelectSeq(structure, LAMBDA site : site.specie.symbol = symbol)
    IN  of("Ce") \o of("Mn") \o of("O")

\* elements[-1].symbol after the sort by el.X
most_electroneg(structure) ==
    LET present == {structure[i].specie.symbol : i \in 1..Len(structure)}
    IN  CHOOSE symbol \in present : \A other \in present : el_X(other) <= el_X(symbol)

\* Poscar(structure).site_symbols: the symbol of each run of sites of one
\* element
RECURSIVE site_symbols(_)
site_symbols(structure) ==
    IF structure = <<>> THEN <<>>
    ELSE IF Len(structure) > 1 /\ structure[1].specie.symbol = structure[2].specie.symbol
    THEN site_symbols(Tail(structure))
    ELSE <<structure[1].specie.symbol>> \o site_symbols(Tail(structure))

\* VASP's default magmom, 0.6
default_magmom == Rat(3, 5)

\* Mutation of site_magmom: the value of the settings comes before the
\* site's own magmom and the spin of its species
site_magmom_config_first(site, setting) ==
    IF specie_str(site.specie) \in DOMAIN setting THEN setting[specie_str(site.specie)]
    ELSE IF site.specie.symbol \in DOMAIN setting THEN setting[site.specie.symbol]
    ELSE IF site.has_magmom THEN site.magmom
    ELSE IF site.specie.has_spin THEN site.specie.spin
    ELSE default_magmom

\* The magmom appended for a site in the MAGMOM branch of get_incar
site_magmom(site, setting) ==
    IF site.has_magmom THEN site.magmom
    ELSE IF site.specie.has_spin THEN site.specie.spin
    ELSE IF specie_str(site.specie) \in DOMAIN setting THEN setting[specie_str(site.specie)]
    ELSE dict_get(setting, site.specie.symbol, default_magmom)

\* The value get_incar's loop gives incar[key] for the setting of key
incar_value(key, setting, structure) ==
    IF key = "MAGMOM"
    THEN [i \in 1..Len(structure) |-> site_magmom(structure[i], setting)]
    ELSE IF key \in {"LDAUU", "LDAUJ", "LDAUL"}
    THEN LET symbols == site_symbols(structure)
         IN  IF most_electroneg(structure) \in DOMAIN setting
             THEN [i \in 1..Len(symbols) |->
                      dict_get(setting[most_electroneg(structure)], symbols[i], Zero)]
             ELSE [i \in 1..Len(symbols) |-> Zero]
    ELSE IF key = "EDIFF" THEN RMul(setting, Rat(Len(structure), 1))
    ELSE setting

\* The value get_incar gives LMAXMIX when the structure has f or d electrons
lmaxmix(structure) ==
    IF \E i \in 1..Len(structure) : el_Z(structure[i].specie.symbol) > 56 THEN 6
    ELSE IF \E i \in 1..Len(structure) : el_Z(structure[i].specie.symbol) > 20 THEN 4
    ELSE 0

\* sum([mag if abs(mag) > 0.6 else 0 for mag in incar['MAGMOM']])
nupdown(mag) ==
    RSum([i \in 1..Len(mag) |-> IF RGt(RAbs(mag[i]), default_magmom) THEN mag[i] ELSE Zero])

\* Mutation of DictVaspInputSet: the user's settings are merged before the
\* LDAU keys are deleted
DictVaspInputSet_user_first(config_dict, hubbard_off, user_incar_settings, constrain_total_magmom, sort_structure) ==
    LET merged == dict_update(config_dict.INCAR, user_incar_settings)
    IN  [incar_settings |->
             IF hubbard_off
             THEN dict_without(merged, {k \in DOMAIN merged : startswith_LDAU(k)})
             ELSE merged,
         set_nupdown |-> constrain_total_magmom,
         sort_structure |-> sort_structure,
         hubbard_off |-> hubbard_off,
         user_incar_settings |-> user_incar_settings]

\* DictVaspInputSet.__init__; user_incar_settings, None or a dict, is an
\* empty dict when it is None.  The field user_incar_settings is not one of
\* the object: the properties refer to it.
DictVaspInputSet(config_dict, hubbard_off, user_incar_settings, constrain_total_magmom, sort_structure) ==
    LET settings == config_dict.INCAR
        kept == IF hubbard_off
                THEN dict_without(settings, {k \in DOMAIN settings : startswith_LDAU(k)})
                ELSE settings
    IN  [incar_settings |-> dict_update(kept, user_incar_settings),
         set_nupdown |-> constrain_total_magmom,
         sort_structure |-> sort_structure,
         hubbard_off |-> hubbard_off,
         user_incar_settings |-> user_incar_settings]

\* DictVaspInputSet.get_incar
get_incar(self, given) ==
    LET structure == IF self.sort_structure THEN sorted_structure(given) ELSE given
        settings == self.incar_settings
        incar == [key \in DOMAIN settings |-> incar_value(key, settings[key], structure)]
        has_u == "LDAUU" \in DOMAIN incar /\ RGt(RSum(incar["LDAUU"]), Zero)
        with_u == IF "LMAXMIX" \notin DOMAIN settings /\ lmaxmix(structure) > 0
                  THEN dict_update(incar, [key \in {"LMAXMIX"} |-> lmaxmix(structure)])
                  ELSE incar
        checked == IF has_u THEN with_u
                   ELSE dict_without(incar, {k \in DOMAIN incar : startswith_LDAU(k)})
    IN  IF ~self.set_nupdown THEN Ok(checked)
        ELSE IF "MAGMOM" \notin DOMAIN checked THEN Raise("KeyError")
        ELSE Ok(dict_update(checked, [key \in {"NUPDOWN"} |-> nupdown(checked["MAGMOM"])]))

----------------------------------------------------------------------------
(* State *)

VARIABLES
    pd,     \* the hull the analyzer was constructed with (self._pd)
    op,     \* the last query
    arg,    \* its input
    res,    \* its outcome: Ok(value) or Raise(exception)
    calls,  \* the steps the last query went through, in order
    built,  \* the hulls the builder returned to the last query, in order
    sweep,  \* the steps of the loop of the last get_element_profile
    memo,   \* an earlier query the caller kept: its input, its outcome and
            \* the hulls the builder returned to it
    inputset \* the input set get_incar is called on (DictVaspInputSet's self)

vars == <<pd, op, arg, res, calls, built, sweep, memo, inputset>>

\* No input set
NoInputSet ==
    [incar_settings |-> EmptyDict, set_nupdown |-> FALSE, sort_structure |-> FALSE,
     hubbard_off |-> FALSE, user_incar_settings |-> EmptyDict]

\* No query kept
NoCall == [op |-> "none", arg |-> <<>>, res |-> Ok(<<>>), built |-> <<>>]

\* fl with only the positions in keep, in order
RECURSIVE sub_list(_, _)
sub_list(fl, keep) ==
    IF fl = <<>> THEN <<>>
    ELSE LET rest == sub_list(Tail(fl), {k - 1 : k \in keep \ {1}})
         IN  IF 1 \in keep THEN <<Head(fl)>> \o rest ELSE rest

\* The analyzer takes the hull as it is given.  A hull that lacks facets of
\* the lower hull of its entries: the hull of the builder for the entries,
\* with at least one facet left out.
GappedHulls(entries, elements) ==
    {PhaseDiagram(entries, elements, sub_list(h.facets, keep)) :
        h \in PhaseDiagrams(entries, elements),
        keep \in (SUBSET (1..Cardinality(hull_facets(entries, elements))))
                    \ {1..Cardinality(hull_facets(entries, elements))}}

Idle ==
    /\ op = "idle"
    /\ arg = <<>>
    /\ res = Ok(<<>>)
    /\ calls = <<>>
    /\ built = <<>>
    /\ sweep = <<>>
    /\ memo = NoCall
    /\ inputset = NoInputSet

\* An analyzer constructed with a hull of the builder
Init ==
    /\ \E elements \in ElementLists : \E entries \in EntryLists(elements) :
          pd \in PhaseDiagrams(entries, elements)
    /\ Idle

\* An analyzer constructed with a hull that lacks facets
InitGapped ==
    /\ \E elements \in ElementLists : \E entries \in EntryLists(elements) :
          pd \in GappedHulls(entries, elements)
    /\ Idle

Entries(hull) == {hull.all_entries[i] : i \in 1..Len(hull.all_entries)}

\* _get_facet(comp)
GetFacet(comp) ==
    /\ op = "idle"
    /\ op' = "get_facet"
    /\ arg' = comp
    /\ res' = get_facet(pd, comp)
    /\ calls' = <<"_get_facet">>
    /\ built' = <<>>
    /\ sweep' = <<>>
    /\ UNCHANGED <<pd, memo, inputset>>

\* _get_facets(comp)
GetFacets(comp) ==
    /\ op = "idle"
    /\ op' = "get_facets"
    /\ arg' = comp
    /\ res' = get_facets(pd, comp)
    /\ calls' = <<"_get_facets">>
    /\ built' = <<>>
    /\ sweep' = <<>>
    /\ UNCHANGED <<pd, memo, inputset>>

\* get_decomposition(comp)
GetDecomposition(comp) ==
    /\ op = "idle"
    /\ op' = "get_decomposition"
    /\ arg' = comp
    /\ res' = get_decomposition(pd, comp)
    /\ calls' = <<"get_decomposition">>
    /\ built' = <<>>
    /\ sweep' = <<>>
    /\ UNCHANGED <<pd, memo, inputset>>

\* get_decomp_and_e_above_hull(entry)
GetDecompAndEAboveHull(entry) ==
    /\ op = "idle"
    /\ op' = "get_decomp_and_e_above_hull"
    /\ arg' = entry
    /\ res' = get_decomp_and_e_above_hull(pd, entry)
    /\ calls' = <<"get_decomposition">>
    /\ built' = <<>>
    /\ sweep' = <<>>
    /\ UNCHANGED <<pd, memo, inputset>>

\* get_e_above_hull(entry)
GetEAboveHull(entry) ==
    /\ op = "idle"
    /\ op' = "get_e_above_hull"
    /\ arg' = entry
    /\ res' = get_e_above_hull(pd, entry)
    /\ calls' = <<"get_decomp_and_e_above_hull", "get_decomposition">>
    /\ built' = <<>>
    /\ sweep' = <<>>
    /\ UNCHANGED <<pd, memo, inputset>>

\* Mutation of GetEquilibriumReactionEnergy: any entry of the hull is accepted
GetEquilibriumReactionEnergy_any(entry) ==
    /\ op = "idle"
    /\ op' = "get_equilibrium_reaction_energy"
    /\ arg' = entry
    /\ IF entry \notin Entries(pd)
       THEN /\ res' = Raise("ValueError")
            /\ calls' = <<>>
            /\ built' = <<>>
       ELSE LET entries == entries_without(pd.all_entries, entry)
            IN  IF build_fails(entries, pd.elements)
                THEN /\ res' = Raise("PhaseDiagramError")
                     /\ calls' = <<"PhaseDiagram">>
                     /\ built' = <<>>
                ELSE \E modpd \in PhaseDiagrams(entries, pd.elements) :
                        /\ res' = get_e_above_hull(modpd, entry)
                        /\ calls' = <<"PhaseDiagram", "get_decomp_and_e_above_hull",
                                      "get_decomposition">>
                        /\ built' = <<modpd>>
    /\ sweep' = <<>>
    /\ UNCHANGED <<pd, memo, inputset>>

\* get_equilibrium_reaction_energy(entry)
GetEquilibriumReactionEnergy(entry) ==
    /\ op = "idle"
    /\ op' = "get_equilibrium_reaction_energy"
    /\ arg' = entry
    /\ IF entry \notin pd.stable_entries
       THEN /\ res' = Raise("ValueError")
            /\ calls' = <<>>
            /\ built' = <<>>
       ELSE LET entries == entries_without(pd.all_entries, entry)
            IN  IF build_fails(entries, pd.elements)
                THEN /\ res' = Raise("PhaseDiagramError")
                     /\ calls' = <<"PhaseDiagram">>
                     /\ built' = <<>>
                ELSE \E modpd \in PhaseDiagrams(entries, pd.elements) :
                        /\ res' = get_e_above_hull(modpd, entry)
                        /\ calls' = <<"PhaseDiagram", "get_decomp_and_e_above_hull",
                                      "get_decomposition">>
                        /\ built' = <<modpd>>
    /\ sweep' = <<>>
    /\ UNCHANGED <<pd, memo, inputset>>

\* get_facet_chempots(facet)
GetFacetChempots(facet) ==
    /\ op = "idle"
    /\ op' = "get_facet_chempots"
    /\ arg' = facet
    /\ res' = get_facet_chempots(pd, facet)
    /\ calls' = <<"get_facet_chempots">>
    /\ built' = <<>>
    /\ sweep' = <<>>
    /\ UNCHANGED <<pd, memo, inputset>>

\* Mutation of GetTransitionChempots: the reversal is done in place on the
\* hull's facet list
GetTransitionChempots_inplace(element) ==
    /\ op = "idle"
    /\ op' = "get_transition_chempots"
    /\ arg' = element
    /\ res' = get_transition_chempots(pd, element)
    /\ calls' = IF has_element(pd, element)
                THEN [k \in 1..Len(pd.facets) |-> "get_facet_chempots"]
                ELSE <<>>
    /\ built' = <<>>
    /\ sweep' = <<>>
    /\ pd' = [pd EXCEPT !.facets = reverse(pd.facets)]
    /\ UNCHANGED <<memo, inputset>>

\* get_transition_chempots(element)
GetTransitionChempots(element) ==
    /\ op = "idle"
    /\ op' = "get_transition_chempots"
    /\ arg' = element
    /\ res' = get_transition_chempots(pd, element)
    /\ calls' = IF has_element(pd, element)
                THEN [k \in 1..Len(pd.facets) |-> "get_facet_chempots"]
                ELSE <<>>
    /\ built' = <<>>
    /\ sweep' = <<>>
    /\ UNCHANGED <<pd, memo, inputset>>

\* get_chempot_range_map(elements)
GetChempotRangeMap(elements) ==
    /\ op = "idle"
    /\ op' = "get_chempot_range_map"
    /\ arg' = elements
    /\ res' = get_chempot_range_map(pd, elements)
    /\ calls' = <<"_get_facets", "get_facet_chempots">>
    /\ built' = <<>>
    /\ sweep' = <<>>
    /\ UNCHANGED <<pd, memo, inputset>>

\* Mutation of GetElementProfile: the transition potentials are computed
\* before the element is looked up
GetElementProfile_late(element, comp) ==
    /\ op = "idle"
    /\ op' = "get_element_profile"
    /\ arg' = <<element, comp>>
    /\ IF ~has_element(pd, element)
       THEN /\ res' = Raise("ValueError")
            /\ calls' = <<"get_transition_chempots">>
            /\ built' = <<>>
            /\ sweep' = <<>>
       ELSE LET chempots == get_transition_chempots(pd, element)
            IN  IF chempots.kind # "ok"
                THEN /\ res' = chempots
                     /\ calls' = <<"get_transition_chempots">>
                     /\ built' = <<>>
                     /\ sweep' = <<>>
                ELSE \E steps \in With(sweep_hulls(pd, element, chempots.val),
                                        LAMBDA hulls : profile_runs(pd, element, comp,
                                                           chempots.val, hulls, 1, {})) :
                        /\ res' = profile_outcome(pd, element, steps)
                        /\ calls' = <<"get_transition_chempots">> \o profile_calls(steps)
                        /\ built' = SelectSeq([k \in 1..Len(steps) |-> steps[k].gcpd],
                                              LAMBDA h : h # NoHull)
                        /\ sweep' = steps
    /\ UNCHANGED <<pd, memo, inputset>>

\* Mutation of GetElementProfile: the list of events is kept on the analyzer
\* and a later profile appends to the events of the kept one
GetElementProfile_kept(element, comp) ==
    /\ op = "idle"
    /\ op' = "get_element_profile"
    /\ arg' = <<element, comp>>
    /\ IF ~has_element(pd, element)
       THEN /\ res' = Raise("ValueError")
            /\ calls' = <<>>
            /\ built' = <<>>
            /\ sweep' = <<>>
       ELSE LET chempots == get_transition_chempots(pd, element)
                kept == IF memo.op = "get_element_profile" /\ memo.res.kind = "ok"
                        THEN memo.res.val ELSE <<>>
            IN  IF chempots.kind # "ok"
                THEN /\ res' = chempots
                     /\ calls' = <<"get_transition_chempots">>
                     /\ built' = <<>>
                     /\ sweep' = <<>>
                ELSE \E steps \in With(sweep_hulls(pd, element, chempots.val),
                                        LAMBDA hulls : profile_runs(pd, element, comp,
                                                           chempots.val, hulls, 1, {})) :
                        /\ res' = IF profile_outcome(pd, element, steps).kind = "ok"
                                  THEN Ok(kept \o profile_outcome(pd, element, steps).val)
                                  ELSE profile_outcome(pd, element, steps)
                        /\ calls' = <<"get_transition_chempots">> \o profile_calls(steps)
                        /\ built' = SelectSeq([k \in 1..Len(steps) |-> steps[k].gcpd],
                                              LAMBDA h : h # NoHull)
                        /\ sweep' = steps
    /\ UNCHANGED <<pd, memo, inputset>>

\* get_element_profile(element, comp)
GetElementProfile(element, comp) ==
    /\ op = "idle"
    /\ op' = "get_element_profile"
    /\ arg' = <<element, comp>>
    /\ IF ~has_element(pd, element)
       THEN /\ res' = Raise("ValueError")
            /\ calls' = <<>>
            /\ built' = <<>>
            /\ sweep' = <<>>
       ELSE LET chempots == get_transition_chempots(pd, element)
            IN  IF chempots.kind # "ok"
                THEN /\ res' = chempots
                     /\ calls' = <<"get_transition_chempots">>
                     /\ built' = <<>>
                     /\ sweep' = <<>>
                ELSE \E steps \in With(sweep_hulls(pd, element, chempots.val),
                                        LAMBDA hulls : profile_runs(pd, element, comp,
                                                           chempots.val, hulls, 1, {})) :
                        /\ res' = profile_outcome(pd, element, steps)
                        /\ calls' = <<"get_transition_chempots">> \o profile_calls(steps)
                        /\ built' = SelectSeq([k \in 1..Len(steps) |-> steps[k].gcpd],
                                              LAMBDA h : h # NoHull)
                        /\ sweep' = steps
    /\ UNCHANGED <<pd, memo, inputset>>

\* The caller takes the outcome; the analyzer is ready for the next query
Return ==
    /\ op # "idle"
    /\ op' = "idle"
    /\ arg' = <<>>
    /\ res' = Ok(<<>>)
    /\ calls' = <<>>
    /\ built' = <<>>
    /\ sweep' = <<>>
    /\ UNCHANGED <<pd, memo, inputset>>

\* The caller takes the outcome and keeps it, with the hulls the builder
\* returned, to compare later calls with
Remember ==
    /\ op # "idle"
    /\ memo.op = "none"
    /\ memo' = [op |-> op, arg |-> arg, res |-> res, built |-> built]
    /\ op' = "idle"
    /\ arg' = <<>>
    /\ res' = Ok(<<>>)
    /\ calls' = <<>>
    /\ built' = <<>>
    /\ sweep' = <<>>
    /\ UNCHANGED <<pd, inputset>>

\* The builder is deterministic: to the kept query asked again, it returns
\* the hulls it returned before
builder_repeats ==
    (memo.op = op /\ memo.arg = arg) => built = memo.built

\* A query starts when none is under way
Next ==
    \/ op = "idle" /\ \E comp \in QueryComps(pd.elements) : GetFacet(comp)
    \/ op = "idle" /\ \E comp \in QueryComps(pd.elements) : GetFacets(comp)
    \/ op = "idle" /\ \E comp \in QueryComps(pd.elements) : GetDecomposition(comp)
    \/ op = "idle" /\ \E entry \in Entries(pd) \cup ForeignEntries(pd.elements) :
                          GetDecompAndEAboveHull(entry)
    \/ op = "idle" /\ \E entry \in Entries(pd) \cup ForeignEntries(pd.elements) :
                          GetEAboveHull(entry)
    \/ op = "idle" /\ \E entry \in Entries(pd) \cup Twins(pd) :
                          GetEquilibriumReactionEnergy(entry)
    \/ op = "idle" /\ \E k \in 1..Len(pd.facets) : GetFacetChempots(pd.facets[k])
    \/ op = "idle" /\ \E element \in AllElements : GetTransitionChempots(element)
    \/ op = "idle" /\ \E comp \in ProfileComps(pd.elements) : \E element \in AllElements :
                          GetElementProfile(element, comp)
    \/ op = "idle" /\ \E elements \in RangeElements : GetChempotRangeMap(elements)
    \/ Return

Spec == Init /\ [][Next]_vars

SpecGapped == InitGapped /\ [][Next]_vars

\* The compositions an earlier and a later query are compared about: those
\* a profile is asked for that split their atoms in halves or not at all
TwiceMixtures ==
    {c \in ProfileMixtures :
        \A el \in AllElements :
            c[el] \in {0, QueryAtoms \div 2, QueryAtoms - QueryAtoms \div 2, QueryAtoms}}

TwiceMixturesAB == {c \in TwiceMixtures : c["C"] = 0}

TwiceComps(elements) ==
    IF \E k \in 1..Len(elements) : elements[k] = "C"
    THEN TwiceMixtures ELSE TwiceMixturesAB

\* The entries they are compared about: those of these compositions at the
\* energy -1/2
TwiceForeign(elements) ==
    {PDEntry(0, c, Rat(-1, 2)) : c \in TwiceComps(elements)}

\* The systems an earlier and a later query are compared on: those of one
\* element and one entry, the tilted ones of two and the ones of three with
\* one entry inside and no other, each with one hull of the builder
TwiceLists(elements) ==
    IF Len(elements) = 1 THEN {l \in EntryLists(elements) : Len(l) = 1}
    ELSE TiltedLists(elements) \cup {l \in InteriorLists(elements) : Len(l) = 4}

InitTwice ==
    /\ \E elements \in ElementLists : \E entries \in TwiceLists(elements) :
          pd = CHOOSE h \in PhaseDiagrams(entries, elements) : TRUE
    /\ Idle

\* Queries, one of which the caller keeps, with a builder that is deterministic
NextTwice ==
    \/ op = "idle" /\ \E comp \in TwiceComps(pd.elements) : GetFacet(comp)
    \/ op = "idle" /\ \E comp \in TwiceComps(pd.elements) : GetFacets(comp)
    \/ op = "idle" /\ \E comp \in TwiceComps(pd.elements) : GetDecomposition(comp)
    \/ op = "idle" /\ \E entry \in Entries(pd) \cup TwiceForeign(pd.elements) :
                          GetDecompAndEAboveHull(entry)
    \/ op = "idle" /\ \E entry \in Entries(pd) \cup TwiceForeign(pd.elements) :
                          GetEAboveHull(entry)
    \/ op = "idle" /\ \E entry \in Entries(pd) \cup Twins(pd) :
                          GetEquilibriumReactionEnergy(entry) /\ builder_repeats'
    \/ op = "idle" /\ \E k \in 1..Len(pd.facets) : GetFacetChempots(pd.facets[k])
    \/ op = "idle" /\ \E element \in AllElements : GetTransitionChempots(element)
    \/ op = "idle" /\ \E comp \in TwiceComps(pd.elements) : \E element \in AllElements :
                          GetElementProfile(element, comp) /\ builder_repeats'
    \/ op = "idle" /\ \E elements \in RangeElements : GetChempotRangeMap(elements)
    \/ Return
    \/ Remember

SpecTwice == InitTwice /\ [][NextTwice]_vars

\* The analyzer takes the hull as it is given.  A hull whose list of entries
\* does not go with its coordinates: a hull of the builder with one entry of
\* qhull_entries replaced by another of them, so that a facet with both has
\* two vertices of the same composition.
CorruptHulls(entries, elements) ==
    {[h EXCEPT !.qhull_entries = [h.qhull_entries EXCEPT ![p[1]] = h.qhull_entries[p[2]]]] :
        h \in {CHOOSE h \in PhaseDiagrams(entries, elements) : TRUE},
        p \in {q \in (1..Len(entries)) \X (1..Len(entries)) : q[1] # q[2]}}

\* An analyzer constructed with such a hull, of a system of two or three
\* elements
InitCorrupt ==
    /\ \E elements \in ElementLists : \E entries \in TwiceLists(elements) :
          /\ Len(elements) > 1
          /\ pd \in CorruptHulls(entries, elements)
    /\ Idle

SpecCorrupt == InitCorrupt /\ [][Next]_vars

----------------------------------------------------------------------------
(* DictVaspInputSet: inputs, construction and get_incar *)

\* The species of the sites: the elements, Mn3+ with and without a spin, Mn4+
Species ==
    {Specie(symbol, 0, FALSE, Zero) : symbol \in Symbols}
        \cup {Specie("Mn", 3, has_spin, IF has_spin THEN Rat(4, 1) ELSE Zero) :
                 has_spin \in BOOLEAN}
        \cup {Specie("Mn", 4, FALSE, Zero)}

\* The sites: of each species, and the Mn and Mn3+ ones also with a magmom of
\* their own
Sites ==
    {Site(specie, FALSE, Zero) : specie \in Species}
        \cup {Site(specie, TRUE, Rat(5, 1)) :
                 specie \in {sp \in Species : sp.symbol = "Mn" /\ sp.oxi_state # 4}}

\* The structures: up to MaxSites sites in any order
Structures == UNION {[1..n -> Sites] : n \in 1..MaxSites}

\* MAGMOM settings: for a species and its element, for the element alone,
\* for nothing
MagmomSettings ==
    {("Mn3+" :> Rat(3, 1)) @@ ("Mn" :> Rat(2, 1)), ("Mn" :> Rat(2, 1)), EmptyDict}

\* LDAUU, LDAUL settings: by most electronegative element, then by element
HubbardU == ("O" :> (("Mn" :> Rat(4, 1)) @@ ("Ce" :> Zero)))

HubbardL == ("O" :> ("Mn" :> Rat(2, 1)))

\* config_dict: INCAR settings without and with Hubbard U, with one of the
\* MAGMOM settings or none
ConfigDicts ==
    LET plain == ("EDIFF" :> Rat(1, 2))
        hubbard == ("LDAU" :> TRUE) @@ ("LDAUU" :> HubbardU) @@ ("LDAUL" :> HubbardL)
    IN  {[INCAR |-> incar] :
            incar \in {plain, plain @@ hubbard}
                 \cup {plain @@ ("MAGMOM" :> m) : m \in MagmomSettings}
                 \cup {plain @@ hubbard @@ ("MAGMOM" :> m) : m \in MagmomSettings}}

\* user_incar_settings: none, Hubbard U keys, a MAGMOM, an LMAXMIX
UserIncarSettings ==
    {EmptyDict,
     ("LDAUU" :> HubbardU),
     ("LDAU" :> TRUE),
     ("LDAU" :> TRUE) @@ ("LDAUU" :> HubbardU) @@ ("LMAXMIX" :> 2),
     ("MAGMOM" :> ("Mn4+" :> Rat(1, 1)))}

\* An input set as constructed, no get_incar under way
InitIncar ==
    /\ \E config_dict \in ConfigDicts : \E user_incar_settings \in UserIncarSettings :
       \E hubbard_off \in BOOLEAN : \E constrain_total_magmom \in BOOLEAN :
       \E sort_structure \in BOOLEAN :
          inputset = DictVaspInputSet(config_dict, hubbard_off, user_incar_settings,
                                      constrain_total_magmom, sort_structure)
    /\ pd = NoHull
    /\ op = "idle"
    /\ arg = <<>>
    /\ res = Ok(<<>>)
    /\ calls = <<>>
    /\ built = <<>>
    /\ sweep = <<>>
    /\ memo = NoCall

\* get_incar(structure)
GetIncar(structure) ==
    /\ op = "idle"
    /\ op' = "get_incar"
    /\ arg' = structure
    /\ res' = get_incar(inputset, structure)
    /\ calls' = <<>>
    /\ built' = <<>>
    /\ sweep' = <<>>
    /\ UNCHANGED <<pd, memo, inputset>>

NextIncar ==
    \/ op = "idle" /\ \E structure \in Structures : GetIncar(structure)
    \/ Return

SpecIncar == InitIncar /\ [][NextIncar]_vars

----------------------------------------------------------------------------
(* Properties *)

\* sum over the keys of decomp of amount x f(key), taken along the hull's
\* entries
weighted(hull, decomp, f(_)) ==
    RSum([i \in 1..Len(hull.qhull_entries) |->
            IF hull.qhull_entries[i] \in DOMAIN decomp
            THEN RMul(decomp[hull.qhull_entries[i]], f(hull.qhull_entries[i]))
            ELSE Zero])

energy_of(e) == e.energy_per_atom

\* C1: for every stable entry e of the hull, get_e_above_hull(e) returns a
\* value whose magnitude is at most the tolerance.
C1_StableOnHull ==
    (op = "get_e_above_hull" /\ arg \in pd.stable_entries) =>
        (res.kind = "ok" /\ RLe(RAbs(res.val), numerical_tol))

\* A stable compound of energy beyond the tolerance was found on the hull
C1_Witness ==
    /\ op = "get_e_above_hull"
    /\ arg \in pd.stable_entries
    /\ ~is_element(arg.composition)
    /\ RGe(RAbs(arg.energy_per_atom), numerical_tol)
    /\ res = Ok(Zero)

\* The distance, for the k-th element of the hull, between the atomic
\* fraction of comp and the one recombined from decomp
recombination_error(hull, decomp, comp, k) ==
    LET frac(e) == get_atomic_fraction(e.composition, hull.elements[k])
    IN  RAbs(RSub(weighted(hull, decomp, frac),
                  get_atomic_fraction(comp, hull.elements[k])))

C3_DistanceIsDifference ==
    ((op = "get_decomp_and_e_above_hull" \/ op = "get_e_above_hull")
        /\ RGe(RAbs(arg.energy_per_atom), numerical_tol)) =>
        LET d == get_decomposition(pd, arg.composition)
            dist == RSub(arg.energy_per_atom, weighted(pd, d.val, energy_of))
        IN  /\ res.kind = d.kind
            /\ d.kind = "ok" =>
                  res.val = IF op = "get_e_above_hull" THEN dist ELSE <<d.val, dist>>

\* An entry exactly at the tolerance got a non-zero distance
C3_Witness ==
    /\ op = "get_decomp_and_e_above_hull"
    /\ RAbs(arg.energy_per_atom) = numerical_tol
    /\ res.kind = "ok"
    /\ res.val[2] # Zero
    /\ Cardinality(DOMAIN res.val[1]) = 2

\* C4: for an entry whose energy per atom is below the tolerance in
\* magnitude, get_decomp_and_e_above_hull returns the decomposition of its
\* composition and a distance of exactly 0, whatever the hull energy there.
C4_ZeroEnergyForcedToZero ==
    (op = "get_decomp_and_e_above_hull"
        /\ RLt(RAbs(arg.energy_per_atom), numerical_tol)) =>
        LET d == get_decomposition(pd, arg.composition)
        IN  /\ res.kind = d.kind
            /\ d.kind = "ok" => res.val = <<d.val, Zero>>

\* The distance was forced to 0 where the hull energy is strictly negative
\* and the entry's energy is not 0
C4_Witness ==
    /\ op = "get_decomp_and_e_above_hull"
    /\ RLt(RAbs(arg.energy_per_atom), numerical_tol)
    /\ arg.energy_per_atom # Zero
    /\ res.kind = "ok"
    /\ res.val[2] = Zero
    /\ RLt(weighted(pd, res.val[1], energy_of), Zero)

\* C5: for every stable entry e of the hull, get_equilibrium_reaction_energy(e)
\* returns a value that is at most the tolerance.
C5_StableReactionEnergy ==
    (op = "get_equilibrium_reaction_energy" /\ arg \in pd.stable_entries) =>
        (res.kind = "ok" /\ RLe(res.val, numerical_tol))

\* C6: for an entry that is not a stable entry of the hull,
\* get_equilibrium_reaction_energy fails with the not-stable error before any
\* hull is rebuilt and before any decomposition is computed.
C6_NotStableFailsFirst ==
    (op = "get_equilibrium_reaction_energy" /\ arg \notin pd.stable_entries) =>
        (res = Raise("ValueError") /\ calls = <<>>)

\* An entry of the hull that is not stable was refused
C6_Witness ==
    /\ op = "get_equilibrium_reaction_energy"
    /\ arg \in Entries(pd) \ pd.stable_entries
    /\ res.kind = "ValueError"

\* The positions of the facets of the hull that contain comp
containing(hull, comp) ==
    {k \in 1..Len(hull.facets) : in_facet(hull, hull.facets[k], comp)}

\* C7: get_facet returns the facet of smallest position in the hull's facet
\* order among the facets that contain the composition.
C7_FirstFit ==
    (op = "get_facet" /\ res.kind = "ok") =>
        \E k \in containing(pd, arg) :
            /\ res.val = pd.facets[k]
            /\ \A j \in containing(pd, arg) : k <= j

\* Two facets contain the composition and the earlier one was returned
C7_Witness ==
    /\ op = "get_facet"
    /\ res.kind = "ok"
    /\ Cardinality(containing(pd, arg)) = 2
    /\ res.val = pd.facets[1]
    /\ res.val # pd.facets[2]

\* C8: get_facet fails with the no-facet-found error exactly when no facet of
\* the hull contains the composition, and get_decomposition and
\* get_e_above_hull then fail with that error too.
C8_NoFacetFound ==
    /\ op = "get_facet" =>
          (res.kind = "RuntimeError" <=> containing(pd, arg) = {})
    /\ (op = "get_decomposition" /\ containing(pd, arg) = {}) =>
          res = Raise("RuntimeError")
    /\ (op = "get_e_above_hull" /\ containing(pd, arg.composition) = {}) =>
          res = Raise("RuntimeError")

\* The error reached the caller of get_e_above_hull on a hull that has facets
C8_Witness ==
    /\ op = "get_e_above_hull"
    /\ Len(pd.facets) > 0
    /\ res = Raise("RuntimeError")

C9_WitnessNone ==
    /\ op = "get_facets"
    /\ Len(pd.facets) > 0
    /\ res = Ok(<<>>)

\* The hull of the binary scenario: A and B of energy 0, AB of energy -1
scenario(hull) ==
    /\ hull.elements = <<"A", "B">>
    /\ Len(hull.all_entries) = 3
    /\ \A i \in 1..3 :
          LET e == hull.all_entries[i]
          IN  IF is_element(e.composition)
              THEN e.energy_per_atom = Zero
              ELSE /\ get_atomic_fraction(e.composition, "A") = Rat(1, 2)
                   /\ e.energy_per_atom = Rat(-1, 1)
    /\ \E i \in 1..3 : ~is_element(hull.all_entries[i].composition)

\* C10: the chemical potentials returned by get_facet_chempots(facet) solve
\* the facet's system: for every vertex of the facet, the sum over the hull's
\* elements of atomic fraction x potential is the vertex's energy per atom. On
\* the facet A-AB of the binary scenario they are 0 for A and -2 for B.
C10_ChempotsSolve ==
    (op = "get_facet_chempots" /\ res.kind = "ok") =>
        /\ DOMAIN res.val = {pd.elements[k] : k \in 1..Len(pd.elements)}
        /\ \A v \in 1..Len(arg) :
              LET e == pd.qhull_entries[arg[v]]
              IN  RSum([k \in 1..Len(pd.elements) |->
                          RMul(get_atomic_fraction(e.composition, pd.elements[k]),
                               res.val[pd.elements[k]])]) = e.energy_per_atom
        /\ (scenario(pd) /\ \A v \in 1..Len(arg) :
                               pd.qhull_entries[arg[v]].composition["A"] > 0) =>
              res.val = [el \in {"A", "B"} |-> IF el = "A" THEN Zero ELSE Rat(-2, 1)]

\* The potentials of the facet A-AB of the scenario were returned
C10_Witness ==
    /\ op = "get_facet_chempots"
    /\ scenario(pd)
    /\ \A v \in 1..Len(arg) : pd.qhull_entries[arg[v]].composition["A"] > 0
    /\ res.kind = "ok"
    /\ res.val["B"] = Rat(-2, 1)

\* The potential of element on the k-th facet of the hull
facet_potential(hull, k, element) ==
    get_facet_chempots(hull, hull.facets[k]).val[element]

\* C12: the tuple returned by get_transition_chempots(element) is strictly
\* decreasing, from less negative to more negative, and any two adjacent
\* values of it differ by more than the tolerance.
C12_StrictlyDecreasing ==
    (op = "get_transition_chempots" /\ res.kind = "ok") =>
        \A i \in 1..(Len(res.val) - 1) :
            /\ RGt(res.val[i], res.val[i + 1])
            /\ RGt(RAbs(RSub(res.val[i], res.val[i + 1])), numerical_tol)

\* Two potentials were returned for a hull that has two facets of the same
\* potential for another of its elements
C12_Witness ==
    /\ op = "get_transition_chempots"
    /\ res.kind = "ok"
    /\ Len(res.val) = 2
    /\ \E k \in 1..Len(pd.elements) :
          facet_potential(pd, 1, pd.elements[k]) = facet_potential(pd, 2, pd.elements[k])

\* C13 as stated: the first value returned by get_transition_chempots is
\* the most negative (smallest) of the returned values.
C13_MostNegativeFirst ==
    (op = "get_transition_chempots" /\ res.kind = "ok") =>
        \A i \in 1..Len(res.val) : RLe(res.val[1], res.val[i])

\* C13, amended: the first value returned by get_transition_chempots is the
\* least negative (largest) of the returned values, the last one the most
\* negative.
C13_LeastNegativeFirst ==
    (op = "get_transition_chempots" /\ res.kind = "ok") =>
        \A i \in 1..Len(res.val) :
            /\ RGe(res.val[1], res.val[i])
            /\ RLe(res.val[Len(res.val)], res.val[i])

\* Several potentials were returned, and the first one is not the smallest
C13_Witness ==
    /\ op = "get_transition_chempots"
    /\ res.kind = "ok"
    /\ Len(res.val) > 1
    /\ RGt(res.val[1], res.val[Len(res.val)])

\* C14: the potential of the requested element on every facet of the hull
\* is within the tolerance of some value returned by
\* get_transition_chempots(element), and every returned value is the
\* potential of the element on some facet.
C14_CoversFacets ==
    (op = "get_transition_chempots" /\ res.kind = "ok") =>
        /\ \A k \in 1..Len(pd.facets) : \E i \in 1..Len(res.val) :
              RLe(RAbs(RSub(facet_potential(pd, k, arg), res.val[i])), numerical_tol)
        /\ \A i \in 1..Len(res.val) : \E k \in 1..Len(pd.facets) :
              res.val[i] = facet_potential(pd, k, arg)

\* The potential of some facet was dropped: it is none of the returned
\* values, and within the tolerance of one
C14_Witness ==
    /\ op = "get_transition_chempots"
    /\ res.kind = "ok"
    /\ \E k \in 1..Len(pd.facets) :
          /\ \A i \in 1..Len(res.val) : res.val[i] # facet_potential(pd, k, arg)
          /\ \E i \in 1..Len(res.val) :
                RLe(RAbs(RSub(facet_potential(pd, k, arg), res.val[i])), numerical_tol)

\* C11: get_transition_chempots(element) and get_element_profile(element,
\* composition) fail with the unknown-element error (ValueError) for every
\* element that is not an element of the hull, before any facet potential
\* is computed and before any grand-potential hull is built.
C11_UnknownElementFirst ==
    /\ (op = "get_transition_chempots" /\ ~has_element(pd, arg)) =>
          res = Raise("ValueError") /\ calls = <<>> /\ built = <<>>
    /\ (op = "get_element_profile" /\ ~has_element(pd, arg[1])) =>
          res = Raise("ValueError") /\ calls = <<>> /\ built = <<>>

\* get_transition_chempots failed for an element that is not in a hull of
\* two elements
C11_Witness ==
    /\ op = "get_transition_chempots"
    /\ pd.dim = 2
    /\ ~has_element(pd, arg)
    /\ res = Raise("ValueError")

\* get_element_profile failed for an element that is not in a hull of two
\* elements
C11_WitnessProfile ==
    /\ op = "get_element_profile"
    /\ pd.dim = 2
    /\ ~has_element(pd, arg[1])
    /\ res = Raise("ValueError")

\* The values of s are values of t, in the order they have in t, each
\* position of t used once at most
RECURSIVE is_subsequence(_, _)
is_subsequence(s, t) ==
    IF s = <<>> THEN TRUE
    ELSE IF t = <<>> THEN FALSE
    ELSE IF Head(s) = Head(t) THEN is_subsequence(Tail(s), Tail(t))
    ELSE is_subsequence(s, Tail(t))

\* C15: the events returned by get_element_profile(element, composition)
\* are in the order of strictly decreasing potential: their 'chempot' values
\* are a subsequence of get_transition_chempots(element), so that there are
\* never more events than transition potentials.
C15_EventsFollowTransitions ==
    (op = "get_element_profile" /\ res.kind = "ok") =>
        LET chempots == get_transition_chempots(pd, arg[1]).val
            events == [k \in 1..Len(res.val) |-> res.val[k].chempot]
        IN  /\ is_subsequence(events, chempots)
            /\ Len(events) <= Len(chempots)
            /\ \A k \in 1..(Len(events) - 1) : RGt(events[k], events[k + 1])

\* A profile was returned with an event, and with fewer events than there
\* are transition potentials
C15_Witness ==
    /\ op = "get_element_profile"
    /\ res.kind = "ok"
    /\ Len(res.val) >= 1
    /\ Len(res.val) < Len(get_transition_chempots(pd, arg[1]).val)

\* Events were returned for two transition potentials
C15_WitnessTwo ==
    /\ op = "get_element_profile"
    /\ res.kind = "ok"
    /\ Len(res.val) = 2

\* The phases of the step before step k of a sweep: none before the first
previous_phases(steps, k) == IF k = 1 THEN {} ELSE steps[k - 1].decomp

\* C16: in the sweep of get_element_profile an event is recorded at a step
\* if and only if the set of phases of that step's decomposition differs
\* from the set of phases of the previous step's decomposition.
C16_EventIffPhasesChange ==
    op = "get_element_profile" =>
        \A k \in 1..Len(sweep) :
            sweep[k].kind = "ok" =>
                (sweep[k].event <=> sweep[k].decomp # previous_phases(sweep, k))

\* The facets of the hull that hold the composition of entry e, as positions
\* in the hull's list of facets
holding(hull, e) ==
    {k \in 1..Len(hull.facets) : in_facet(hull, hull.facets[k], e.composition)}

\* The pairs of facets that hold the composition of e and share exactly
\* dim - 1 vertices
qualifying(hull, e) ==
    {q \in holding(hull, e) \X holding(hull, e) :
        /\ q[1] < q[2]
        /\ Cardinality({hull.facets[q[1]][v] : v \in 1..hull.dim}
                           \cap {hull.facets[q[2]][v] : v \in 1..hull.dim}) = hull.dim - 1}

\* The potentials of the k-th facet for the elements asked for, each less the
\* energy per atom of the element's reference
projected(hull, k, elements) ==
    [i \in 1..Len(elements) |->
        RSub(facet_potential(hull, k, elements[i]),
             hull.el_refs[elements[i]].energy_per_atom)]

\* C17: the keys of the mapping returned by get_chempot_range_map(elements)
\* are exactly the stable entries with a pair of facets that both hold the
\* entry's composition and share exactly dim - 1 vertices; an entry maps to
\* one simplex for each such pair, made of the two facets' potentials for
\* the requested elements, in their order, each less the energy per atom of
\* the element's reference.
C17_RangeMap ==
    (op = "get_chempot_range_map" /\ res.kind = "ok") =>
        /\ DOMAIN res.val = {e \in pd.stable_entries : qualifying(pd, e) # {}}
        /\ \A e \in DOMAIN res.val :
              /\ Len(res.val[e]) = Cardinality(qualifying(pd, e))
              /\ \A q \in qualifying(pd, e) : \E a \in 1..Len(res.val[e]) :
                    res.val[e][a] = <<projected(pd, q[1], arg), projected(pd, q[2], arg)>>

\* A map was returned for two elements with a key that has a pair of
\* facets that share a single vertex
C17_Witness ==
    /\ op = "get_chempot_range_map"
    /\ res.kind = "ok"
    /\ Len(arg) = 2
    /\ pd.dim = 3
    /\ \E e \in DOMAIN res.val :
          \E k1, k2 \in holding(pd, e) :
              k1 < k2 /\ <<k1, k2>> \notin qualifying(pd, e)

\* A map was returned for a hull with a reference of energy other than 0,
\* without some stable entry
C17_WitnessReference ==
    /\ op = "get_chempot_range_map"
    /\ res.kind = "ok"
    /\ DOMAIN res.val # {}
    /\ \E e \in pd.stable_entries : e \notin DOMAIN res.val
    /\ pd.el_refs[arg[1]].energy_per_atom # Zero

\* Half of the atoms of comp are A and half are B
half_and_half(comp) ==
    comp["A"] > 0 /\ comp["A"] = comp["B"] /\ comp["C"] = 0

\* C18: on the hull of the binary scenario (A and B of energy 0, AB of
\* energy -1 per atom), get_decomposition of the composition half A, half B
\* returns AB with amount 1 and no other key, and get_e_above_hull of an
\* entry of that composition and energy -1/2 per atom returns 1/2.
C18_Scenario ==
    scenario(pd) =>
        /\ (op = "get_decomposition" /\ half_and_half(arg)) =>
              /\ res.kind = "ok"
              /\ \E e \in DOMAIN res.val :
                    /\ DOMAIN res.val = {e}
                    /\ half_and_half(e.composition)
                    /\ e \in Entries(pd)
                    /\ res.val[e] = One
        /\ (op = "get_e_above_hull" /\ half_and_half(arg.composition)
                /\ arg.energy_per_atom = Rat(-1, 2)) =>
              res = Ok(Rat(1, 2))

\* On the scenario, the distance of an entry half A, half B of energy -1/2
\* was returned
C18_Witness ==
    /\ scenario(pd)
    /\ op = "get_e_above_hull"
    /\ half_and_half(arg.composition)
    /\ arg.energy_per_atom = Rat(-1, 2)
    /\ res.kind = "ok"

\* On the scenario, the decomposition of the composition half A, half B was
\* returned
C18_WitnessDecomposition ==
    /\ scenario(pd)
    /\ op = "get_decomposition"
    /\ half_and_half(arg)
    /\ res.kind = "ok"

\* C19: no step of the analyzer changes the hull it was constructed with:
\* across every query, failing ones included, and across its return, the
\* hull's entries, elements, facets, stable entries and element references
\* stay what they were.
C19_HullUnchanged ==
    [][/\ pd' = pd
       /\ pd'.all_entries = pd.all_entries
       /\ pd'.elements = pd.elements
       /\ pd'.facets = pd.facets
       /\ pd'.stable_entries = pd.stable_entries
       /\ pd'.el_refs = pd.el_refs]_vars

\* A sweep built grand-potential hulls, none of them the analyzer's, and
\* then failed
C19_Witness ==
    /\ op = "get_element_profile"
    /\ res.kind \notin {"ok", "ValueError"}
    /\ built # <<>>
    /\ \A k \in 1..Len(built) : built[k] # pd

\* A reaction-energy query built a hull without the entry and returned
C19_WitnessRebuilt ==
    /\ op = "get_equilibrium_reaction_energy"
    /\ res.kind = "ok"
    /\ built # <<>>
    /\ built[1] # pd

C20_WitnessFails ==
    /\ memo.op = op
    /\ memo.arg = arg
    /\ res.kind # "ok"

\* The number of calls of name among calls
times_called(name) ==
    Cardinality({k \in 1..Len(calls) : calls[k] = name})

\* The builder failed in the last query
builder_failed ==
    \/ op = "get_equilibrium_reaction_energy" /\ calls = <<"PhaseDiagram">>
    \/ op = "get_element_profile" /\ sweep # <<>> /\ sweep[Len(sweep)].gcpd = NoHull

\* The reaction balancer failed in the last query
balancer_failed ==
    /\ op = "get_element_profile"
    /\ sweep # <<>>
    /\ sweep[Len(sweep)].gcpd # NoHull
    /\ calls[Len(calls)] = "Reaction"
    /\ sweep[Len(sweep)].reaction = <<>>

\* A collaborator was called once in each step and its failure ended the loop
not_retried ==
    IF op = "get_equilibrium_reaction_energy" THEN times_called("PhaseDiagram") = 1
    ELSE /\ times_called("GrandPotentialPhaseDiagram") = Len(sweep)
         /\ times_called("Reaction") <= Len(sweep)
         /\ \A k \in 1..(Len(sweep) - 1) : sweep[k].kind = "ok"

\* The input of the last query that a failure would be traced to
trigger == IF op = "get_element_profile" THEN arg[1] ELSE arg

\* C21 as stated: when the builder or the balancer fails, it is not called
\* again for the step, and the caller gets an error of the analyzer that
\* wraps the failure and carries the entry or the element of the query.
C21_FailureWrapped ==
    (builder_failed \/ balancer_failed) =>
        /\ not_retried
        /\ res.kind \notin {"ok", "PhaseDiagramError", "ReactionError"}
        /\ res.val = trigger

\* C21, amended: when the builder or the balancer fails, it is not called
\* again for the step, no value is returned, and the caller gets the
\* collaborator's own error as it was raised, without a wrapper and
\* without the entry or the element.
C21_FailureSurfaced ==
    /\ builder_failed => not_retried /\ res = Raise("PhaseDiagramError")
    /\ balancer_failed => not_retried /\ res = Raise("ReactionError")

\* The balancer failed in a step of a profile, after the hull of the step
\* was built and the composition decomposed
C21_Witness ==
    /\ balancer_failed
    /\ times_called("get_decomposition") >= 2
    /\ res.kind # "ok"

\* The builder failed in a reaction-energy query
C21_WitnessBuilder ==
    builder_failed /\ op = "get_equilibrium_reaction_energy"

\* The builder failed in a step of a profile
C21_WitnessSweep ==
    builder_failed /\ op = "get_element_profile"

\* The facet located for comp has a singular matrix of atomic fractions
located_singular(hull, comp) ==
    With(get_facet(hull, comp), LAMBDA facet :
        facet.kind = "ok" /\ facet_matrix_singular(hull, facet.val))

\* C22: get_decomposition fails with the error of the singular matrix
\* (LinAlgError) and returns no mapping whenever the matrix of atomic
\* fractions of the vertices of the located facet is singular.
C22_SingularFacetFails ==
    (op = "get_decomposition" /\ located_singular(pd, arg)) =>
        res = Raise("LinAlgError")

\* A decomposition was asked for a composition whose located facet has two
\* vertices of the same composition
C22_Witness ==
    /\ op = "get_decomposition"
    /\ located_singular(pd, arg)
    /\ \E i, j \in 1..pd.dim :
          /\ i # j
          /\ pd.qhull_entries[get_facet(pd, arg).val[i]].composition
                = pd.qhull_entries[get_facet(pd, arg).val[j]].composition

\* The keys of the returned INCAR that begin with LDAU
ldau_keys(incar) == {key \in DOMAIN incar : startswith_LDAU(key)}

\* The structure as get_incar reads it
read_structure ==
    IF inputset.sort_structure THEN sorted_structure(arg) ELSE arg

\* The user's settings give the structure Hubbard U values that sum to more
\* than 0
user_sets_u ==
    /\ "LDAUU" \in DOMAIN inputset.user_incar_settings
    /\ RGt(RSum(incar_value("LDAUU", inputset.user_incar_settings["LDAUU"],
                            read_structure)), Zero)

C23_WitnessUser ==
    /\ op = "get_incar"
    /\ inputset.hubbard_off
    /\ res.kind = "ok"
    /\ ldau_keys(res.val) # {}

\* value is what the first rule that applies to site gives: the site's own
\* magmom, the spin of its species, the setting for the string of its
\* species, the setting for its element, 0.6
first_rule_gives(site, setting, value) ==
    LET own == site.has_magmom
        spin == site.specie.has_spin
        by_species == specie_str(site.specie) \in DOMAIN setting
        by_element == site.specie.symbol \in DOMAIN setting
    IN  /\ own => value = site.magmom
        /\ (~own /\ spin) => value = site.specie.spin
        /\ (~own /\ ~spin /\ by_species) => value = setting[specie_str(site.specie)]
        /\ (~own /\ ~spin /\ ~by_species /\ by_element) =>
              value = setting[site.specie.symbol]
        /\ (~own /\ ~spin /\ ~by_species /\ ~by_element) => value = Rat(3, 5)

\* C24: when the settings of the input set have MAGMOM, the MAGMOM of the
\* INCAR has one value for each site of the structure, in the order of the
\* sites as get_incar reads them, and each value is given by the first rule
\* that applies to its site.
C24_MagmomByFirstRule ==
    (op = "get_incar" /\ "MAGMOM" \in DOMAIN inputset.incar_settings) =>
        /\ res.kind = "ok"
        /\ "MAGMOM" \in DOMAIN res.val
        /\ Len(res.val["MAGMOM"]) = Len(arg)
        /\ \A i \in 1..Len(arg) :
              first_rule_gives(read_structure[i], inputset.incar_settings["MAGMOM"],
                               res.val["MAGMOM"][i])

\* A MAGMOM was returned for a site with a magmom, a spin and a setting for
\* its species, and for a site that none of the rules applies to
C24_Witness ==
    /\ op = "get_incar"
    /\ "MAGMOM" \in DOMAIN inputset.incar_settings
    /\ res.kind = "ok"
    /\ \E i, j \in 1..Len(arg) :
          /\ arg[i].has_magmom
          /\ arg[i].specie.has_spin
          /\ specie_str(arg[i].specie) \in DOMAIN inputset.incar_settings["MAGMOM"]
          /\ ~arg[j].has_magmom
          /\ ~arg[j].specie.has_spin
          /\ specie_str(arg[j].specie) \notin DOMAIN inputset.incar_settings["MAGMOM"]
          /\ arg[j].specie.symbol \notin DOMAIN inputset.incar_settings["MAGMOM"]

\* A MAGMOM was returned by the setting for the element of a species that
\* has no setting of its own, the sites read in another order than given
C24_WitnessElement ==
    /\ op = "get_incar"
    /\ "MAGMOM" \in DOMAIN inputset.incar_settings
    /\ res.kind = "ok"
    /\ read_structure # arg
    /\ \E i \in 1..Len(arg) :
          /\ arg[i].specie.oxi_state = 4
          /\ arg[i].specie.symbol \in DOMAIN inputset.incar_settings["MAGMOM"]

\* The potentials of the requested element on the facets of the hull, in
\* ascending order
sorted_potentials == sorted(critical_chempots(pd, arg, 1).val)

\* C25 as stated: get_transition_chempots deduplicates by runs of adjacent
\* sorted values: the sorted facet potentials are split into maximal runs in
\* which every two neighbouring values differ by no more than the tolerance,
\* and the result holds exactly the first (smallest) value of each run.
C25_FirstOfEachRun ==
    (op = "get_transition_chempots" /\ res.kind = "ok") =>
        reverse(res.val) = run_heads(sorted_potentials)

\* C25, amended: get_transition_chempots deduplicates against the last value
\* kept: the smallest sorted facet potential is kept, every further kept
\* value is the first sorted potential that exceeds the value kept before it
\* by more than the tolerance, and no sorted potential exceeds the last kept
\* value by more than the tolerance.
C25_FirstBeyondLastKept ==
    (op = "get_transition_chempots" /\ res.kind = "ok") =>
        LET kept == reverse(res.val)
            s == sorted_potentials
            beyond(i, k) == RGt(RSub(s[i], kept[k]), numerical_tol)
        IN  /\ Len(kept) > 0
            /\ kept[1] = s[1]
            /\ \A k \in 1..(Len(kept) - 1) : \E i \in 1..Len(s) :
                  /\ s[i] = kept[k + 1]
                  /\ beyond(i, k)
                  /\ \A j \in 1..(i - 1) : ~beyond(j, k)
            /\ \A i \in 1..Len(s) : ~beyond(i, Len(kept))

\* Three facet potentials form a chain, each within the tolerance of the
\* next and the ends further apart, and the largest of them was returned
C25_Witness ==
    /\ op = "get_transition_chempots"
    /\ res.kind = "ok"
    /\ \E i \in 1..(Len(sorted_potentials) - 2) :
          LET s == sorted_potentials
          IN  /\ RLe(RSub(s[i + 1], s[i]), numerical_tol)
              /\ RLe(RSub(s[i + 2], s[i + 1]), numerical_tol)
              /\ RGt(RSub(s[i + 2], s[i]), numerical_tol)
              /\ \E r \in 1..Len(res.val) : res.val[r] = s[i + 2]

\* Two facet potentials within the tolerance of each other gave one value
C25_WitnessRun ==
    /\ op = "get_transition_chempots"
    /\ res.kind = "ok"
    /\ Len(sorted_potentials) = 2
    /\ Len(res.val) = 1
    /\ sorted_potentials[1] # sorted_potentials[2]

\* The facet that get_decomposition locates for the composition asked for,
\* and the amounts it solves on it
located_facet == get_facet(pd, arg).val

solved_amounts == decompamts(pd, located_facet, arg)

\* C26: get_decomposition returns a key for a vertex entry of the located
\* facet if and only if the absolute value of its solved amount is strictly
\* greater than the tolerance; the kept values are the solved amounts as they
\* are, and the result has no more than dim entries, all of them vertices of
\* the first facet that contains the composition.  The solved amounts are
\* those that recombine the vertices' atomic fractions to the composition's.
C26_KeptIffAboveTolerance ==
    (op = "get_decomposition" /\ res.kind = "ok") =>
        LET vertex(i) == pd.qhull_entries[located_facet[i]]
        IN  /\ \A i \in 1..Len(located_facet) :
                  /\ vertex(i) \in DOMAIN res.val
                        <=> RGt(RAbs(solved_amounts[i]), numerical_tol)
                  /\ vertex(i) \in DOMAIN res.val
                        => res.val[vertex(i)] = solved_amounts[i]
            /\ Cardinality(DOMAIN res.val) <= pd.dim
            /\ DOMAIN res.val \subseteq {vertex(i) : i \in 1..Len(located_facet)}
            /\ \A k \in 1..Len(pd.elements) :
                  RSum([i \in 1..Len(located_facet) |->
                          RMul(solved_amounts[i],
                               get_atomic_fraction(vertex(i).composition, pd.elements[k]))])
                      = get_atomic_fraction(arg, pd.elements[k])

\* A vertex whose amount is exactly the tolerance was omitted and a vertex
\* of a larger amount was kept
C26_Witness ==
    /\ op = "get_decomposition"
    /\ res.kind = "ok"
    /\ \E i, j \in 1..Len(located_facet) :
          /\ solved_amounts[i] = numerical_tol
          /\ pd.qhull_entries[located_facet[i]] \notin DOMAIN res.val
          /\ pd.qhull_entries[located_facet[j]] \in DOMAIN res.val

\* C27: on a hull of a single element the membership test builds no Simplex
\* (so it cannot fail) and is true for every facet and every composition;
\* get_facet returns the first facet of the hull and get_facets all of them.
C27_UnaryAlwaysMember ==
    (Len(pd.elements) = 1 /\ op \in {"get_facet", "get_facets"}) =>
        /\ \A i \in 1..Len(pd.qhull_entries) :
              in_facet(pd, <<i>>, arg) /\ ~in_facet_raises(pd, <<i>>)
        /\ op = "get_facet" => res = Ok(pd.facets[1])
        /\ op = "get_facets" => res = Ok(pd.facets)

\* The first facet of a hull of one element and several entries was
\* returned for a composition without that element
C27_Witness ==
    /\ Len(pd.elements) = 1
    /\ Len(pd.qhull_entries) > 1
    /\ op = "get_facet"
    /\ arg[pd.elements[1]] = 0
    /\ res = Ok(pd.facets[1])

\* All facets of a hull of one element were returned for a composition
\* without that element
C27_WitnessFacets ==
    /\ Len(pd.elements) = 1
    /\ op = "get_facets"
    /\ arg[pd.elements[1]] = 0
    /\ res = Ok(pd.facets)

\* The hull built for the k-th transition potential has the entries wrapped
\* at that potential less delta
built_below(k, element, c) ==
    \A i \in 1..Len(built[k].all_entries) :
        built[k].all_entries[i]
            = GrandPotPDEntry(built[k].all_entries[i].original_entry, element, RSub(c, delta))

\* The decomposition, against the hull built in step k, of the composition
\* asked for without the element
step_decomposition(k) == get_decomposition(built[k], without_element(arg[2], arg[1])).val

C28_WitnessTwo ==
    /\ op = "get_element_profile"
    /\ res.kind = "ok"
    /\ Len(res.val) = 2
    /\ Len(built) >= 2
    /\ res.val[1].entries # res.val[2].entries


============================================================================
